---- MODULE Spec2Model ----
(***************************************************************************)
(* A model of the BlueEdge document-analysis application.                  *)
(*                                                                         *)
(*   Spec         the relational store (Document, Chat, Message) and the   *)
(*                HTTP handlers that read and write it, interleaved at     *)
(*                their awaits.                                            *)
(*   SpecSearch   semanticSearch and processAllDocuments over the          *)
(*                in-memory documentChunks map, with the document          *)
(*                handlers that run beside them.                           *)
(*   SpecExtract  extractNumericalData over bounded contents.              *)
(*   SpecRag      POST /api/rag and multiDocumentRAG.                      *)
(*   SpecHttp     the path of one request through each HTTP handler.       *)
(*   SpecUpload   POST /api/documents over every kind of file, beside the  *)
(*                moves and the deletes.                                   *)
(*   SpecAnalysis performAnalysis and the council tax analysis over        *)
(*                bounded queries and stores.                              *)
(*   SpecGemini   POST /api/gemini, GET /api/gemini and GET /api/env-test  *)
(*                over the values of the two API keys.                     *)
(*   SpecUI       the Home component of page.tsx: its state, the requests  *)
(*                it sends and the callbacks that run when they are        *)
(*                answered; there a request is served in one step.         *)
(*                                                                         *)
(* Every prisma call and every call of an external API is one atomic step; *)
(* a handler's synchronous code between two awaits belongs to the step of  *)
(* the await before it.                                                    *)
(***************************************************************************)
EXTENDS Integers, Sequences, FiniteSets, TLC

VARIABLES
    documents,       \* Document rows: id -> [title, content, markdown, metadata, folder]
    chats,           \* Chat rows: id -> [documentId]
    messages,        \* Message rows: id -> [chatId, role, content]
    nextDocId,       \* ids are cuids: unique, never reused; creation order = id order
    nextChatId,
    nextMsgId,
    documentChunks,  \* the module-level Map of semanticSearch.ts: id -> chunks
    openaiKey,       \* process.env.OPENAI_API_KEY
    geminiKey,       \* process.env.GEMINI_API_KEY
    procs,           \* the requests in flight: slot -> the handler's position and locals
    lastResp,        \* the response produced by the last step, if it ended a request
    extraction,      \* a call of extractNumericalData: its input and its locals
    rag,             \* a POST /api/rag request: the locals of multiDocumentRAG
    http,            \* a request to any handler: the path it takes to its response
    analysis,        \* a call of performAnalysis or of the council tax analysis
    ui               \* the state of the page component and its requests in flight

vars == <<documents, chats, messages, nextDocId, nextChatId, nextMsgId,
          documentChunks, openaiKey, geminiKey, procs, lastResp,
          extraction, rag, http, analysis, ui>>

store == <<documents, chats, messages>>

-----------------------------------------------------------------------------
(* Bounds of the model *)

MaxProcs == 2
MaxDocs == 2
MaxChats == 2
MaxMsgs == 2
MaxSearches == 1

(* Program constants *)

chunkSize == 1000
chunkOverlap == 200
DefaultSearchLimit == 5

-----------------------------------------------------------------------------
(* Helpers *)

Max(S) == CHOOSE x \in S : \A y \in S : y <= x
Min(S) == CHOOSE x \in S : \A y \in S : x <= y

RECURSIVE SetToSeq(_)
SetToSeq(S) == IF S = {} THEN <<>> ELSE <<Min(S)>> \o SetToSeq(S \ {Min(S)})

Restrict(f, S) == [x \in S |-> f[x]]
Put(f, k, v) == [x \in DOMAIN f \cup {k} |-> IF x = k THEN v ELSE f[x]]

\* The requests in flight are a bag: record -> how many requests are at that point
RECURSIVE BagSize(_)
BagSize(b) == IF DOMAIN b = {} THEN 0
              ELSE LET r == CHOOSE x \in DOMAIN b : TRUE
                   IN b[r] + BagSize(Restrict(b, DOMAIN b \ {r}))
BagAdd(b, r) == IF r \in DOMAIN b THEN [b EXCEPT ![r] = @ + 1] ELSE Put(b, r, 1)
BagRemove(b, r) == IF b[r] = 1 THEN Restrict(b, DOMAIN b \ {r}) ELSE [b EXCEPT ![r] = @ - 1]
New == [kind |-> "new"]
NoResp == [kind |-> "none"]
Resp(k, s, e, d) == [kind |-> k, status |-> s, error |-> e, data |-> d]
NoData == <<>>

-----------------------------------------------------------------------------
(* Inputs *)

UnsetKey == ""
PlaceholderOpenAIKey == "your_openai_api_key_here"
ValidOpenAIKey == "sk-live"
PlaceholderGeminiKey == "your_gemini_api_key_here"
ValidGeminiKey == "AIza-live"
GeminiKeys == {UnsetKey, PlaceholderGeminiKey, ValidGeminiKey}
OpenAIKeys == {UnsetKey, PlaceholderOpenAIKey, ValidOpenAIKey}

\* A text is a sequence of units, each standing for chunkOverlap characters.
ShortText == <<"a">>
LongText == <<"a", "b", "c", "d", "e", "f">>
\* A file: its name, its type (the name's extension), content: the bytes read
\* as text (buffer.toString()), parsed: the text that mammoth or XLSX yields
\* from it when it parses
File(name, type, content, parsed) ==
    [name |-> name, type |-> type, content |-> content, parsed |-> parsed,
     present |-> TRUE]
NoFile == [name |-> "", type |-> "", content |-> <<>>, parsed |-> <<>>, present |-> FALSE]
ShortFile == File("a.txt", "txt", ShortText, <<>>)
LongFile == File("b.txt", "txt", LongText, <<>>)
EmptyFile == File("e.txt", "txt", <<>>, <<>>)
WordFile == File("w.docx", "docx", <<"PK">>, <<"w">>)
BlankWordFile == File("v.doc", "doc", <<"PK">>, <<>>)
SheetFile == File("s.xlsx", "xlsx", <<"PK">>, <<"## Sheet: ", "s">>)
StoreFiles == {ShortFile, EmptyFile, NoFile}
SearchFiles == {ShortFile, LongFile}
UploadFiles == {ShortFile, EmptyFile, NoFile, WordFile, BlankWordFile, SheetFile}

NoId == 0
DocIdInputs == 0..MaxDocs
Folders == {"", "Research"}
ChatTexts == {"", "q"}
Queries == {"", "tax"}
Limits == {0, 1, 2, DefaultSearchLimit}
Similarities == {1, 2}
Actions == {"process_all", "other"}

-----------------------------------------------------------------------------
(* The text splitter: RecursiveCharacterTextSplitter(chunkSize, chunkOverlap)
   on a text without separators cuts windows of chunkSize characters that
   overlap by chunkOverlap characters. *)

ChunkUnits == chunkSize \div chunkOverlap
Stride == ChunkUnits - 1

RECURSIVE SplitFrom(_, _)
SplitFrom(text, from) ==
    IF from > Len(text) THEN <<>>
    ELSE IF from + ChunkUnits - 1 >= Len(text)
         THEN << SubSeq(text, from, Len(text)) >>
         ELSE << SubSeq(text, from, from + ChunkUnits - 1) >> \o SplitFrom(text, from + Stride)

splitText(text) == SplitFrom(text, 1)

-----------------------------------------------------------------------------
(* The store: prisma over SQLite with the foreign keys of the migration *)

ChatsOf(docId) == {c \in DOMAIN chats : chats[c].documentId = docId}
MessagesOf(chatId) == {m \in DOMAIN messages : messages[m].chatId = chatId}

\* Chat_documentId_fkey / Message_chatId_fkey: ON DELETE RESTRICT, checked on insert
ChatInsertAllowed(docId) == docId \in DOMAIN documents
MessageInsertAllowed(chatId) == chatId \in DOMAIN chats
ChatsDeleteAllowed(cs) == \A c \in cs : MessagesOf(c) = {}
DocumentDeleteUnchecked(docId) == docId \in DOMAIN documents
DocumentDeleteAllowed(docId) == docId \in DOMAIN documents /\ ChatsOf(docId) = {}

convertToMarkdown(file, content) == <<"# ", file.name, content>>
extractMetadata(file, content) == [fileName |-> file.name, wordCount |-> Len(content)]

\* The content that POST /api/documents extracts: mammoth for Word files, XLSX
\* for spreadsheets, each falling back to buffer.toString() when it throws
WordTypes == {"docx", "doc"}
SheetTypes == {"ods", "xlsx", "xls"}
extractRaw(file, parses) == file.content
extractContent(file, parses) ==
    IF file.type \in WordTypes \cup SheetTypes /\ parses THEN file.parsed
    ELSE file.content

-----------------------------------------------------------------------------
\* No call, no request
Idle == [pc |-> "idle"]

\* An empty store, an empty map, no request in flight
InitStore ==
    /\ documents = <<>>
    /\ chats = <<>>
    /\ messages = <<>>
    /\ nextDocId = 1
    /\ nextChatId = 1
    /\ nextMsgId = 1
    /\ documentChunks = <<>>
    /\ procs = <<>>
    /\ lastResp = NoResp

Init ==
    /\ InitStore
    /\ openaiKey \in OpenAIKeys
    /\ geminiKey = UnsetKey
    /\ extraction = Idle /\ rag = Idle /\ http = Idle /\ analysis = Idle /\ ui = Idle

\* A request arrives while fewer than MaxProcs are in flight
Arrives(r) == r = New /\ BagSize(procs) < MaxProcs
At(r, kind, pc) == r \in DOMAIN procs /\ r.kind = kind /\ r.pc = pc
Leave(r) == IF r = New THEN procs ELSE BagRemove(procs, r)

Finish(r, resp) ==
    /\ procs' = Leave(r)
    /\ lastResp' = resp
    /\ UNCHANGED <<geminiKey, extraction, rag, http, analysis, ui>>

Continue(r, rec) ==
    /\ procs' = BagAdd(Leave(r), rec)
    /\ lastResp' = NoResp
    /\ UNCHANGED <<geminiKey, extraction, rag, http, analysis, ui>>

-----------------------------------------------------------------------------
(* POST /api/documents *)

DocumentsPOST(p, file, parses) ==
    /\ Arrives(p)
    /\ UNCHANGED <<chats, messages, nextChatId, nextMsgId, documentChunks, openaiKey>>
    /\ LET content == extractContent(file, parses)
           request == [file |-> file, parses |-> parses] IN
       IF ~file.present
       THEN /\ Finish(p, Resp("upload", 400, TRUE, request))
            /\ UNCHANGED <<documents, nextDocId>>
       ELSE IF Len(content) = 0
       THEN /\ Finish(p, Resp("upload", 400, TRUE, request))
            /\ UNCHANGED <<documents, nextDocId>>
       ELSE /\ nextDocId <= MaxDocs
            /\ documents' = Put(documents, nextDocId,
                                [title |-> file.name, content |-> content,
                                 markdown |-> convertToMarkdown(file, content),
                                 metadata |-> extractMetadata(file, content),
                                 folder |-> "Unclassified"])
            /\ nextDocId' = nextDocId + 1
            /\ Finish(p, Resp("upload", 200, FALSE, request))

-----------------------------------------------------------------------------
(* PATCH /api/documents?id=..&folder=.. *)

\* prisma.document.update({ where: { id }, data: { folder } })
UpdateFolderAndTitle(doc, folder) == [doc EXCEPT !.folder = folder, !.title = folder]
UpdateFolderAndContent(doc, folder) == [doc EXCEPT !.folder = folder, !.content = <<folder>>]
UpdateFolder(doc, folder) == [doc EXCEPT !.folder = folder]

PatchStart(p, id, folder) ==
    /\ Arrives(p)
    /\ UNCHANGED <<store, nextDocId, nextChatId, nextMsgId, documentChunks, openaiKey>>
    /\ IF id = NoId \/ folder = ""
       THEN Finish(p, Resp("patch", 400, TRUE, [id |-> id, folder |-> folder]))
       ELSE IF id \notin DOMAIN documents
       THEN Finish(p, Resp("patch", 404, TRUE, [id |-> id, folder |-> folder]))
       ELSE Continue(p, [kind |-> "patch", pc |-> "update", id |-> id, folder |-> folder])

PatchUpdate(p) ==
    /\ At(p, "patch", "update")
    /\ UNCHANGED <<chats, messages, nextDocId, nextChatId, nextMsgId, documentChunks, openaiKey>>
    /\ IF p.id \notin DOMAIN documents
       THEN /\ Finish(p, Resp("patch", 500, TRUE, [id |-> p.id, folder |-> p.folder]))
            /\ UNCHANGED documents
       ELSE /\ documents' = [documents EXCEPT ![p.id] = UpdateFolder(@, p.folder)]
            /\ Finish(p, Resp("patch", 200, FALSE, [id |-> p.id, folder |-> p.folder]))

-----------------------------------------------------------------------------
(* DELETE /api/documents?id=.. *)

\* where: { chatId: chat.id }
NoMessages(chatId) == {}
MessagesOfAnyChat(chatId) == DOMAIN messages
MessagesWhereChat(chatId) == MessagesOf(chatId)

DeleteStart(p, id) ==
    /\ Arrives(p)
    /\ UNCHANGED <<store, nextDocId, nextChatId, nextMsgId, documentChunks, openaiKey>>
    /\ IF id = NoId
       THEN Finish(p, Resp("delete", 400, TRUE, [id |-> id]))
       ELSE IF id \notin DOMAIN documents
       THEN Finish(p, Resp("delete", 404, TRUE, [id |-> id]))
       ELSE \* findUnique with include: the chats of the document as they are now
            LET snap == SetToSeq(ChatsOf(id)) IN
            \* deletedMessages, deletedChats: the rows that the deleteMany
            \* calls of this request have removed so far
            Continue(p, [kind |-> "delete", id |-> id, snap |-> snap, i |-> 1,
                         chatMark |-> nextChatId, msgMark |-> nextMsgId,
                         deletedMessages |-> {}, deletedChats |-> {},
                         pc |-> IF snap = <<>> THEN "deleteDocument" ELSE "deleteMessages"])

\* prisma.message.deleteMany({ where: { chatId: chat.id } }) for the next chat of the snapshot
DeleteMessages(p) ==
    /\ At(p, "delete", "deleteMessages")
    /\ LET c == p.snap[p.i]
           rows == MessagesWhereChat(c) \cap DOMAIN messages
           r == [p EXCEPT !.deletedMessages =
                            @ \cup {[id |-> m, chatId |-> messages[m].chatId] : m \in rows}] IN
       /\ messages' = Restrict(messages, DOMAIN messages \ MessagesWhereChat(c))
       /\ Continue(p, IF r.i < Len(r.snap)
                      THEN [r EXCEPT !.i = r.i + 1]
                      ELSE [r EXCEPT !.pc = "deleteChats"])
    /\ UNCHANGED <<documents, chats, nextDocId, nextChatId, nextMsgId, documentChunks, openaiKey>>

\* prisma.chat.deleteMany({ where: { documentId: id } }): one statement, all or nothing
DeleteChats(p) ==
    /\ At(p, "delete", "deleteChats")
    /\ UNCHANGED <<documents, messages, nextDocId, nextChatId, nextMsgId, documentChunks, openaiKey>>
    /\ LET r == p
           cs == ChatsOf(r.id) IN
       IF ChatsDeleteAllowed(cs)
       THEN /\ chats' = Restrict(chats, DOMAIN chats \ cs)
            /\ Continue(p, [r EXCEPT !.pc = "deleteDocument",
                                     !.deletedChats = @ \cup cs])
       ELSE /\ UNCHANGED chats
            /\ Finish(p, Resp("delete", 500, TRUE, r))

\* prisma.document.delete({ where: { id } })
DeleteDocument(p) ==
    /\ At(p, "delete", "deleteDocument")
    /\ UNCHANGED <<chats, messages, nextDocId, nextChatId, nextMsgId, documentChunks, openaiKey>>
    /\ LET r == p IN
       IF DocumentDeleteAllowed(r.id)
       THEN /\ documents' = Restrict(documents, DOMAIN documents \ {r.id})
            /\ Finish(p, Resp("delete", 200, FALSE, r))
       ELSE /\ UNCHANGED documents
            /\ Finish(p, Resp("delete", 500, TRUE, r))

-----------------------------------------------------------------------------
(* POST /api/chat *)

OpenAIKeyPresent == openaiKey # UnsetKey
OpenAIKeyConfigured == openaiKey # UnsetKey /\ openaiKey # PlaceholderOpenAIKey

ChatStart(p, documentId, message) ==
    /\ Arrives(p)
    /\ UNCHANGED <<store, nextDocId, nextChatId, nextMsgId, documentChunks, openaiKey>>
    /\ IF documentId = NoId \/ message = ""
       THEN Finish(p, Resp("chat", 400, TRUE, [documentId |-> documentId, message |-> message]))
       ELSE IF documentId \notin DOMAIN documents
       THEN Finish(p, Resp("chat", 404, TRUE, [documentId |-> documentId, message |-> message]))
       ELSE Continue(p, [kind |-> "chat", pc |-> "findChat", documentId |-> documentId,
                         message |-> message, chatId |-> NoId, userMessage |-> NoId,
                         responseText |-> ""])

\* orderBy: { createdAt: 'desc' }: ids are given in the order of creation
OldestChat(cs) == Min(cs)
MostRecentChat(cs) == Max(cs)

\* prisma.chat.findFirst({ where: { documentId }, orderBy: { createdAt: 'desc' } })
ChatFindFirst(p) ==
    /\ At(p, "chat", "findChat")
    /\ UNCHANGED <<store, nextDocId, nextChatId, nextMsgId, documentChunks, openaiKey>>
    /\ LET r == p
           cs == ChatsOf(r.documentId) IN
       IF cs = {}
       THEN Continue(p, [r EXCEPT !.pc = "createChat"])
       ELSE Continue(p, [r EXCEPT !.pc = "saveUser", !.chatId = MostRecentChat(cs)])

\* prisma.chat.create({ data: { documentId } })
ChatCreate(p) ==
    /\ At(p, "chat", "createChat")
    /\ UNCHANGED <<documents, messages, nextDocId, nextMsgId, documentChunks, openaiKey>>
    /\ LET r == p IN
       IF ChatInsertAllowed(r.documentId)
       THEN /\ nextChatId <= MaxChats
            /\ chats' = Put(chats, nextChatId, [documentId |-> r.documentId])
            /\ nextChatId' = nextChatId + 1
            /\ Continue(p, [r EXCEPT !.pc = "saveUser", !.chatId = nextChatId])
       ELSE /\ UNCHANGED <<chats, nextChatId>>
            /\ Finish(p, Resp("chat", 500, TRUE, p))

\* prisma.message.create (role 'user'), then the check of OPENAI_API_KEY
ChatSaveUser(p) ==
    /\ At(p, "chat", "saveUser")
    /\ UNCHANGED <<documents, chats, nextDocId, nextChatId, documentChunks, openaiKey>>
    /\ LET r == p IN
       IF MessageInsertAllowed(r.chatId)
       THEN /\ nextMsgId <= MaxMsgs
            /\ messages' = Put(messages, nextMsgId,
                               [chatId |-> r.chatId, role |-> "user", content |-> r.message])
            /\ nextMsgId' = nextMsgId + 1
            /\ IF OpenAIKeyConfigured
               THEN Continue(p, [r EXCEPT !.pc = "openai", !.userMessage = nextMsgId])
               ELSE Finish(p, Resp("chat", 500, TRUE, [r EXCEPT !.userMessage = nextMsgId]))
       ELSE /\ UNCHANGED <<messages, nextMsgId>>
            /\ Finish(p, Resp("chat", 500, TRUE, p))

\* completion.choices[0].message.content || 'No response generated'
Completions == {"", "answer"}
responseTextOf(content) == IF content = "" THEN "No response generated" ELSE content

\* openai.chat.completions.create: answers with a text or throws
ChatOpenAI(p, ok, content) ==
    /\ At(p, "chat", "openai")
    /\ UNCHANGED <<store, nextDocId, nextChatId, nextMsgId, documentChunks, openaiKey>>
    /\ IF ok
       THEN Continue(p, [p EXCEPT !.pc = "saveAssistant",
                                  !.responseText = responseTextOf(content)])
       ELSE Finish(p, Resp("chat", 500, TRUE, p))

\* prisma.message.create (role 'assistant'), inside the OpenAI try block
ChatSaveAssistant(p) ==
    /\ At(p, "chat", "saveAssistant")
    /\ UNCHANGED <<documents, chats, nextDocId, nextChatId, documentChunks, openaiKey>>
    /\ LET r == p IN
       IF MessageInsertAllowed(r.chatId)
       THEN /\ nextMsgId <= MaxMsgs
            /\ messages' = Put(messages, nextMsgId,
                               [chatId |-> r.chatId, role |-> "assistant", content |-> r.responseText])
            /\ nextMsgId' = nextMsgId + 1
            /\ Finish(p, Resp("chat", 200, FALSE, r))
       ELSE /\ UNCHANGED <<messages, nextMsgId>>
            /\ Finish(p, Resp("chat", 500, TRUE, p))

-----------------------------------------------------------------------------
(* semanticSearch.ts: createDocumentChunks, getEmbedding, semanticSearch *)

\* What createDocumentChunks stores for a document
Chunks(docId, doc) ==
    LET textChunks == splitText(doc.content) IN
    [i \in 1..Len(textChunks) |->
        [content |-> textChunks[i],
         metadata |-> [documentId |-> docId, index |-> i - 1, title |-> doc.title,
                       position |-> <<i, Len(textChunks)>>]]]

\* documentChunks.get(id): the entry, or undefined
Undefined == [defined |-> FALSE, value |-> <<>>]
MapGet(map, id) == IF id \in DOMAIN map THEN [defined |-> TRUE, value |-> map[id]]
                   ELSE Undefined
\* if (!chunks): an array, even an empty one, is truthy
AlwaysNeedsChunks(chunks) == TRUE
NeedsChunks(chunks) == ~chunks.defined
\* for (const chunk of chunks): is there a chunk after the c-th
MoreChunksOffByOne(c, chunks) == c + 1 < Len(chunks)
MoreChunks(c, chunks) == c < Len(chunks)

\* prisma.document.findUnique({ where: { id } }): the document, or null
FindUniqueOrBlank(id) ==
    IF id \in DOMAIN documents THEN [defined |-> TRUE, value |-> documents[id]]
    ELSE [defined |-> TRUE, value |-> [title |-> "", content |-> <<>>]]
FindUnique(id) ==
    IF id \in DOMAIN documents THEN [defined |-> TRUE, value |-> documents[id]]
    ELSE Undefined
\* throw new Error(`Document with ID ${documentId} not found`)
NotFoundMessage(id) == <<"Document with ID ", id, " not found">>

\* getOpenAI(): throws when OPENAI_API_KEY is unset, before any request is sent
GetOpenAIThrows == openaiKey = UnsetKey
KeyMissingMessage == <<"OpenAI API key is not configured">>
\* The error that openai.embeddings.create throws
EmbeddingError == <<"embeddings request failed">>
\* The embeddings endpoint can answer only a request that carries a valid key
EmbeddingOutcomes == IF openaiKey = ValidOpenAIKey THEN BOOLEAN ELSE {FALSE}

\* results.sort((a, b) => b.similarity - a.similarity): a stable sort
RECURSIVE InsertSorted(_, _)
InsertSorted(sorted, x) ==
    IF sorted = <<>> THEN <<x>>
    ELSE IF Head(sorted).similarity >= x.similarity
         THEN <<Head(sorted)>> \o InsertSorted(Tail(sorted), x)
         ELSE <<x>> \o sorted
RECURSIVE SortBySimilarity(_)
SortBySimilarity(results) ==
    IF results = <<>> THEN <<>>
    ELSE InsertSorted(SortBySimilarity(SubSeq(results, 1, Len(results) - 1)),
                      results[Len(results)])
\* .slice(0, limit) for limit >= 0
SliceThrough(seq, limit) == SubSeq(seq, 1, IF limit + 1 < Len(seq) THEN limit + 1 ELSE Len(seq))
Slice(seq, limit) == SubSeq(seq, 1, IF limit < Len(seq) THEN limit ELSE Len(seq))
TopResults(results, limit) == Slice(SortBySimilarity(results), limit)

\* The synchronous part of the loop over the listed documents: from document d
\* on, up to the next await (createDocumentChunks, getEmbedding) or the end.
RECURSIVE Advance(_, _, _)
Advance(r, d, map) ==
    IF d > Len(r.listed) THEN [r EXCEPT !.pc = "respond", !.d = d]
    ELSE LET id == r.listed[d].id
             chunks == MapGet(map, id)
             seen == Append(r.lookups, [id |-> id, had |-> id \in DOMAIN map,
                                        built |-> NeedsChunks(chunks)])
         IN IF NeedsChunks(chunks)
            THEN [r EXCEPT !.pc = "createChunks", !.d = d, !.lookups = seen]
            ELSE IF chunks.value = <<>>
            THEN Advance([r EXCEPT !.lookups = seen], d + 1, map)
            ELSE [r EXCEPT !.pc = "embedChunk", !.d = d, !.c = 1, !.chunks = chunks.value,
                           !.lookups = seen]

SearchEnd(r, rec) ==
    IF rec.pc = "respond"
    THEN Finish(r, Resp("search", 200, FALSE,
                        [rec EXCEPT !.topResults = TopResults(rec.results, rec.limit)]))
    ELSE Continue(r, rec)

\* GET /api/search?query=..&limit=.. : the query's embedding is requested first
SearchStart(p, query, limit, ok) ==
    /\ Arrives(p)
    /\ BagSize(Restrict(procs, {r \in DOMAIN procs : r.kind = "search"})) < MaxSearches
    /\ UNCHANGED <<store, nextDocId, nextChatId, nextMsgId, documentChunks, openaiKey>>
    /\ LET r == [kind |-> "search", pc |-> "list", query |-> query, limit |-> limit,
                 embedLog |-> <<>>, listed |-> <<>>, d |-> 0, c |-> 0, chunks |-> <<>>,
                 lookups |-> <<>>, results |-> <<>>, topResults |-> <<>>,
                 error |-> <<>>] IN
       IF query = ""
       THEN Finish(p, Resp("search", 400, TRUE, r))
       ELSE IF GetOpenAIThrows
       THEN Finish(p, Resp("search", 500, TRUE, [r EXCEPT !.error = KeyMissingMessage]))
       ELSE IF ok
       THEN Continue(p, [r EXCEPT !.embedLog = <<query>>])
       ELSE Finish(p, Resp("search", 500, TRUE,
                           [r EXCEPT !.embedLog = <<query>>, !.error = EmbeddingError]))

\* prisma.document.findMany({ select: { id, title } })
SearchList(p) ==
    /\ At(p, "search", "list")
    /\ UNCHANGED <<store, nextDocId, nextChatId, nextMsgId, documentChunks, openaiKey>>
    /\ LET ids == SetToSeq(DOMAIN documents)
           listed == [k \in 1..Len(ids) |-> [id |-> ids[k], title |-> documents[ids[k]].title]]
       IN SearchEnd(p, Advance([p EXCEPT !.listed = listed], 1, documentChunks))

\* await createDocumentChunks(document.id); chunks = documentChunks.get(document.id) || []
SearchCreateChunks(p) ==
    /\ At(p, "search", "createChunks")
    /\ UNCHANGED <<store, nextDocId, nextChatId, nextMsgId, openaiKey>>
    /\ LET id == p.listed[p.d].id
           document == FindUnique(id) IN
       IF ~document.defined
       THEN /\ UNCHANGED documentChunks
            /\ Finish(p, Resp("search", 500, TRUE, [p EXCEPT !.error = NotFoundMessage(id)]))
       ELSE LET chunks == Chunks(id, document.value) IN
            /\ documentChunks' = Put(documentChunks, id, chunks)
            /\ IF chunks = <<>>
               THEN \* no chunk: on to the next document, with the map as it is now
                    SearchEnd(p, Advance(p, p.d + 1, Put(documentChunks, id, chunks)))
               ELSE Continue(p, [p EXCEPT !.pc = "embedChunk", !.c = 1, !.chunks = chunks])

\* const embedding = await getEmbedding(chunk.content), then the similarity
SearchEmbedChunk(p, ok, similarity) ==
    /\ At(p, "search", "embedChunk")
    /\ UNCHANGED <<store, nextDocId, nextChatId, nextMsgId, documentChunks, openaiKey>>
    /\ LET chunk == p.chunks[p.c]
           sent == [p EXCEPT !.embedLog = Append(@, chunk.content)] IN
       IF ~ok
       THEN Finish(p, Resp("search", 500, TRUE, [sent EXCEPT !.error = EmbeddingError]))
       ELSE LET got == [sent EXCEPT !.results =
                           Append(@, [content |-> chunk.content,
                                      documentId |-> p.listed[p.d].id,
                                      documentTitle |-> p.listed[p.d].title,
                                      similarity |-> similarity,
                                      metadata |-> chunk.metadata])]
            IN IF MoreChunks(p.c, p.chunks)
               THEN Continue(p, [got EXCEPT !.c = p.c + 1])
               ELSE SearchEnd(p, Advance(got, p.d + 1, documentChunks))

\* POST /api/search { action }: processAllDocuments lists the documents
ProcessStart(p, action) ==
    /\ Arrives(p)
    /\ UNCHANGED <<store, nextDocId, nextChatId, nextMsgId, documentChunks, openaiKey>>
    /\ IF action # "process_all"
       THEN Finish(p, Resp("process", 400, TRUE, NoData))
       ELSE LET listed == SetToSeq(DOMAIN documents)
                r == [kind |-> "process", pc |-> "createChunks", listed |-> listed, d |-> 1]
            IN IF listed = <<>>
               THEN Finish(p, Resp("process", 200, FALSE, r))
               ELSE Continue(p, r)

\* await createDocumentChunks(document.id) for the next listed document
ProcessDocument(p) ==
    /\ At(p, "process", "createChunks")
    /\ UNCHANGED <<store, nextDocId, nextChatId, nextMsgId, openaiKey>>
    /\ LET id == p.listed[p.d]
           document == FindUnique(id) IN
       IF ~document.defined
       THEN /\ UNCHANGED documentChunks
            /\ Finish(p, Resp("process", 500, TRUE, p))
       ELSE /\ documentChunks' = Put(documentChunks, id, Chunks(id, document.value))
            /\ IF p.d < Len(p.listed)
               THEN Continue(p, [p EXCEPT !.d = p.d + 1])
               ELSE Finish(p, Resp("process", 200, FALSE, p))

-----------------------------------------------------------------------------
Next ==
    \/ \E file \in StoreFiles, parses \in BOOLEAN : DocumentsPOST(New, file, parses)
    \/ \E id \in DocIdInputs, folder \in Folders : PatchStart(New, id, folder)
    \/ \E p \in DOMAIN procs : PatchUpdate(p)
    \/ \E id \in DocIdInputs : DeleteStart(New, id)
    \/ \E p \in DOMAIN procs : DeleteMessages(p)
    \/ \E p \in DOMAIN procs : DeleteChats(p)
    \/ \E p \in DOMAIN procs : DeleteDocument(p)
    \/ \E id \in DocIdInputs, message \in ChatTexts : ChatStart(New, id, message)
    \/ \E p \in DOMAIN procs : ChatFindFirst(p)
    \/ \E p \in DOMAIN procs : ChatCreate(p)
    \/ \E p \in DOMAIN procs : ChatSaveUser(p)
    \/ \E p \in DOMAIN procs, ok \in BOOLEAN, content \in Completions : ChatOpenAI(p, ok, content)
    \/ \E p \in DOMAIN procs : ChatSaveAssistant(p)

Spec == Init /\ [][Next]_vars

\* The search side: uploads, moves, deletes, searches and process_all, no chat requests
NextSearch ==
    \/ \E file \in SearchFiles, parses \in BOOLEAN : DocumentsPOST(New, file, parses)
    \/ \E id \in DocIdInputs, folder \in Folders : PatchStart(New, id, folder)
    \/ \E p \in DOMAIN procs : PatchUpdate(p)
    \/ \E id \in DocIdInputs : DeleteStart(New, id)
    \/ \E p \in DOMAIN procs : DeleteDocument(p)
    \/ \E query \in Queries, limit \in Limits, ok \in EmbeddingOutcomes :
            SearchStart(New, query, limit, ok)
    \/ \E p \in DOMAIN procs : SearchList(p)
    \/ \E p \in DOMAIN procs : SearchCreateChunks(p)
    \/ \E p \in DOMAIN procs, ok \in EmbeddingOutcomes, sim \in Similarities :
            SearchEmbedChunk(p, ok, sim)
    \/ \E action \in Actions : ProcessStart(New, action)
    \/ \E p \in DOMAIN procs : ProcessDocument(p)

SpecSearch == Init /\ [][NextSearch]_vars

\* Uploads of every kind of file beside moves and deletes
NextUpload ==
    \/ \E file \in UploadFiles, parses \in BOOLEAN : DocumentsPOST(New, file, parses)
    \/ \E id \in DocIdInputs, folder \in Folders : PatchStart(New, id, folder)
    \/ \E p \in DOMAIN procs : PatchUpdate(p)
    \/ \E id \in DocIdInputs : DeleteStart(New, id)
    \/ \E p \in DOMAIN procs : DeleteDocument(p)

SpecUpload == Init /\ [][NextUpload]_vars

-----------------------------------------------------------------------------
(* extractNumericalData *)

\* Contents of a search result: at most MaxPieces pieces, each a character or
\* a run of GapLength letters
MaxPieces == 5
GapLength == 150
Gap == [i \in 1..GapLength |-> "a"]
Pieces == {<<"5">>, <<"7">>, <<"pound">>, <<"%">>, <<".">>, <<" ">>, Gap}
RECURSIVE PieceSeqs(_)
PieceSeqs(n) ==
    IF n = 0 THEN {<<>>}
    ELSE LET shorter == PieceSeqs(n - 1) IN
         shorter \cup {c \o piece : c \in shorter, piece \in Pieces}
Contents == PieceSeqs(MaxPieces)

\* Character classes of the regular expressions; the currency signs are
\* written by name
DigitChars == {"0", "1", "2", "3", "4", "5", "6", "7", "8", "9"}
CurrencyChars == {"pound", "$", "euro"}
SeparatorChars == {",", "."}
SpaceChars == {" "}
LetterChars == {"a"}

\* JavaScript strings are indexed from 0
CharAt(content, i) == IF i >= 0 /\ i < Len(content) THEN content[i + 1] ELSE ""
substring(content, from, to) == SubSeq(content, from + 1, to)
\* \w and \b
IsWordAt(content, i) == CharAt(content, i) \in DigitChars \cup LetterChars
IsBoundary(content, i) == IsWordAt(content, i - 1) # IsWordAt(content, i)

\* The end of the longest run of characters of a class that starts at i
RECURSIVE RunEnd(_, _, _)
RunEnd(content, i, class) ==
    IF CharAt(content, i) \in class THEN RunEnd(content, i + 1, class) ELSE i

NoMatch == -1
\* /(?:£|\$|€)?\s*\b\d+(?:[,.]\d+)?%?\b/ tried at position i: the end of the
\* match, or NoMatch. Greedy, with the alternatives the engine backtracks to
\* in its order: with the decimal group before without it, with % before
\* without it.
MatchEnd(content, i) ==
    LET afterCurrency == IF CharAt(content, i) \in CurrencyChars THEN i + 1 ELSE i
        s == RunEnd(content, afterCurrency, SpaceChars)
        d == RunEnd(content, s, DigitChars)
        g == IF CharAt(content, d) \in SeparatorChars
                  /\ CharAt(content, d + 1) \in DigitChars
             THEN RunEnd(content, d + 1, DigitChars) ELSE d
        WithPercent(e) == IF CharAt(content, e) = "%" THEN <<e + 1, e>> ELSE <<e>>
        ends == IF g > d THEN WithPercent(g) \o WithPercent(d) ELSE WithPercent(d)
        good == {k \in 1..Len(ends) : IsBoundary(content, ends[k])}
    IN IF d = s \/ ~IsBoundary(content, s) \/ good = {} THEN NoMatch
       ELSE ends[Min(good)]

\* The successive matches of the global regular expression from position i on,
\* each with the index of its occurrence
RECURSIVE MatchesFrom(_, _)
MatchesFrom(content, i) ==
    LET starts == {j \in i..(Len(content) - 1) : MatchEnd(content, j) # NoMatch} IN
    IF starts = {} THEN <<>>
    ELSE LET j == Min(starts)
             e == MatchEnd(content, j)
         IN <<[index |-> j, text |-> substring(content, j, e)]>>
                \o MatchesFrom(content, e)
matchAll(content) == MatchesFrom(content, 0)
\* content.match(numberRegex): the matched texts only
match(content) == LET all == matchAll(content) IN [k \in 1..Len(all) |-> all[k].text]

\* content.indexOf(text): the first position at which text occurs
indexOf(content, text) ==
    LET found == {i \in 0..(Len(content) - Len(text)) :
                     substring(content, i, i + Len(text)) = text}
    IN IF found = {} THEN -1 ELSE Min(found)

\* parseFloat: leading white space is skipped, then digits with at most one
\* decimal point are read; the value as a fraction
DigitSeq == <<"0", "1", "2", "3", "4", "5", "6", "7", "8", "9">>
DigitValue(ch) == (CHOOSE n \in 1..Len(DigitSeq) : DigitSeq[n] = ch) - 1
RECURSIVE ParseDigits(_)
ParseDigits(text) ==
    IF text = <<>> THEN [num |-> 0, den |-> 1]
    ELSE LET front == ParseDigits(SubSeq(text, 1, Len(text) - 1))
             ch == text[Len(text)]
             decimals == \E k \in 1..(Len(text) - 1) : text[k] = "."
         IN IF ch = "." THEN front
            ELSE [num |-> 10 * front.num + DigitValue(ch),
                  den |-> IF decimals THEN 10 * front.den ELSE front.den]
parseFloat(text) ==
    ParseDigits(SubSeq(text, RunEnd(text, 0, SpaceChars) + 1, Len(text)))

ContextRadius == 100
\* One iteration of matches.forEach: the entry pushed for a match
Entry(content, text) ==
    LET hasCurrency == \E k \in 1..Len(text) : text[k] \in CurrencyChars
        cleanedMatch == SelectSeq(text, LAMBDA ch : ch # ","
                                     /\ ~(hasCurrency /\ ch \in CurrencyChars \cup SpaceChars))
        isPercentage == cleanedMatch # <<>> /\ cleanedMatch[Len(cleanedMatch)] = "%"
        startIndex == Max({0, indexOf(content, text) - ContextRadius})
        endIndex == Min({Len(content), indexOf(content, text) + Len(text) + ContextRadius})
    IN [match |-> text,
        hasCurrency |-> hasCurrency,
        isPercentage |-> isPercentage,
        value |-> parseFloat(IF isPercentage
                             THEN SubSeq(cleanedMatch, 1, Len(cleanedMatch) - 1)
                             ELSE cleanedMatch),
        context |-> substring(content, startIndex, endIndex)]

InitExtract ==
    /\ InitStore
    /\ openaiKey = ValidOpenAIKey
    /\ geminiKey = UnsetKey
    /\ rag = Idle /\ http = Idle /\ analysis = Idle /\ ui = Idle
    /\ \E content \in Contents :
          extraction = [pc |-> "match", content |-> content, occurrences |-> <<>>,
                        matches |-> <<>>, i |-> 0, numericalData |-> <<>>]

ExtractFrame ==
    UNCHANGED <<documents, chats, messages, nextDocId, nextChatId, nextMsgId,
                documentChunks, openaiKey, geminiKey, procs, lastResp, rag, http,
                analysis, ui>>

\* const matches = result.content.match(numberRegex)
ExtractMatch ==
    /\ extraction.pc = "match"
    /\ extraction' = [extraction EXCEPT
                        !.pc = "forEach", !.i = 1,
                        !.occurrences = matchAll(extraction.content),
                        !.matches = match(extraction.content)]
    /\ ExtractFrame

\* matches.forEach(match => { ... numericalData.push(...) })
ExtractPush ==
    /\ extraction.pc = "forEach"
    /\ extraction.i <= Len(extraction.matches)
    /\ extraction' = [extraction EXCEPT
                        !.i = @ + 1,
                        !.numericalData =
                            Append(@, Entry(extraction.content,
                                            extraction.matches[extraction.i]))]
    /\ ExtractFrame

\* return numericalData
ExtractReturn ==
    /\ extraction.pc = "forEach"
    /\ extraction.i > Len(extraction.matches)
    /\ extraction' = [extraction EXCEPT !.pc = "returned"]
    /\ ExtractFrame

NextExtract ==
    \/ ExtractMatch
    \/ ExtractPush
    \/ ExtractReturn

SpecExtract == InitExtract /\ [][NextExtract]_vars

\* The window of radius ContextRadius around an occurrence
Window(content, occurrence) ==
    substring(content, Max({0, occurrence.index - ContextRadius}),
              Min({Len(content),
                   occurrence.index + Len(occurrence.text) + ContextRadius}))

\* C1: the context of every entry is the window of its own occurrence: the
\* content from max(0, p - 100) to min(length, p + |match| + 100) with p the
\* position of that occurrence, also when two matches have the same text.
C1_ContextOfSameOccurrence ==
    \A k \in 1..Len(extraction.numericalData) :
        extraction.numericalData[k].context
            = Window(extraction.content, extraction.occurrences[k])

-----------------------------------------------------------------------------
(* multiDocumentRAG: the texts, by their lengths in characters *)

\* Math.ceil(text.length / 4)
estimateTokenCount(length) == (length + 3) \div 4

\* The three parts of systemMessage
SystemBaseLength == 345
SystemAnalysisLength == 794
SystemFormatLength == 564
SystemLength(needsAnalysis) ==
    SystemBaseLength + (IF needsAnalysis THEN SystemAnalysisLength ELSE 0)
        + SystemFormatLength
\* `Query: ${query}\n\nDocument Excerpts:\n${context}` without query and context
UserFrameLength == 28
\* '\n\nNote: Document excerpts have been significantly truncated ...'
RetryNoteLength == 86
\* `Document: ${title} (${position})\nContent: ` without title and position
HeaderFrameLength == 23
\* The separator '---' and the '\n\n' that joins the excerpts
DashesLength == 3
JoinLength == 2
\* '... [truncated]'
TruncatedMarkLength == 15

\* The inputs: a query of QueryLength characters, results of one document
\* titled with TitleLength characters whose chunks are full
QueryLength == 40
TitleLength == 8
PositionLength(k, n) ==
    LET Digits(x) == IF x < 10 THEN 1 ELSE 2 IN 10 + Digits(k) + Digits(n)
searchResults(n) ==
    [k \in 1..n |-> [documentTitle |-> TitleLength,
                     position |-> PositionLength(k, n),
                     content |-> chunkSize]]

\* A context: the pieces that split('---') yields, each with the length of its
\* part up to and including 'Content: ' and of the part after it, the length
\* of what stands between two pieces and of what follows the last one. The
\* contents are taken to hold neither '---' nor 'Content: '.
ContextOf(results) ==
    [pieces |-> [k \in 1..Len(results) |->
                    [header |-> (IF k > 1 THEN JoinLength ELSE 0) + HeaderFrameLength
                                    + results[k].documentTitle + results[k].position,
                     content |-> results[k].content + 1]],
     between |-> DashesLength,
     after |-> DashesLength]

RECURSIVE SumOf(_)
SumOf(lengths) == IF lengths = <<>> THEN 0 ELSE Head(lengths) + SumOf(Tail(lengths))
ContextLength(context) ==
    LET n == Len(context.pieces) IN
    IF n = 0 THEN 0
    ELSE SumOf([k \in 1..n |-> context.pieces[k].header + context.pieces[k].content])
            + (n - 1) * context.between + context.after

\* truncateContext(context, maxTokens)
truncateContext(context, maxTokens) ==
    IF estimateTokenCount(ContextLength(context)) <= maxTokens THEN context
    ELSE LET n == Len(context.pieces)
             \* context.split('---').filter(Boolean): what followed the dashes
             \* now leads the next piece
             docs == [k \in 1..n |->
                 [context.pieces[k] EXCEPT
                     !.header = @ + (IF k > 1 THEN context.between - DashesLength ELSE 0)]]
             avgTokensPerDoc == maxTokens \div n
             Shorten(doc) ==
                 LET availableTokens == avgTokensPerDoc - estimateTokenCount(doc.header) IN
                 IF estimateTokenCount(doc.content) > availableTokens
                 THEN [doc EXCEPT !.content =
                          Min({doc.content, Max({0, availableTokens * 4})})
                              + TruncatedMarkLength]
                 ELSE doc
         IN [pieces |-> [k \in 1..n |-> Shorten(docs[k])],
             between |-> DashesLength + JoinLength,
             after |-> 0]

GeminiThreshold == 100000
maxContextTokens == 7000
OpenAITokenLimit == 8000
\* const useGemini = totalTokens > 100000
useGeminiFrom(totalTokens) == totalTokens >= GeminiThreshold
useGemini(totalTokens) == totalTokens > GeminiThreshold
\* Math.floor(maxContextTokens / 2)
RetryBudget == maxContextTokens \div 2

\* Error messages, by the fragments that the code looks for in them
Includes(message, fragment) == \E k \in 1..Len(message) : message[k] = fragment
UpstreamMessages ==
    {<<"Connection error">>,
     <<"429", "Rate limit reached">>,
     <<"Request too large">>,
     <<"429", "Request too large">>}
GeminiStatuses == {"429", "500"}
GeminiKeyMessage == <<"Gemini API key is not configured">>
GeminiApiError(status) == <<"Gemini API error (", status, ")">>
ErrorUsingGemini(message) == <<"Error using Gemini API: ">> \o message

-----------------------------------------------------------------------------
(* POST /api/rag *)

MaxResults == 40
ResultCounts == {0, 1, 16, MaxResults}
RagQueries == {0, QueryLength}
\* The length of what the analysis data adds to the user message: nothing,
\* enough to pass the OpenAI token limit, enough to reach GeminiThreshold
\* exactly, and one character more
AnalysisData == {"none", "large", "atThreshold", "aboveThreshold"}
AnalysisLength(data, query, context) ==
    LET atThreshold ==
            4 * (GeminiThreshold - estimateTokenCount(SystemLength(TRUE)))
                - (UserFrameLength + query + ContextLength(context))
    IN CASE data = "none" -> 0
         [] data = "large" -> 4 * OpenAITokenLimit
         [] data = "atThreshold" -> atThreshold
         [] data = "aboveThreshold" -> atThreshold + 1

InitRag ==
    /\ InitStore
    /\ openaiKey \in OpenAIKeys
    /\ geminiKey \in GeminiKeys
    /\ extraction = Idle /\ rag = Idle /\ http = Idle /\ analysis = Idle /\ ui = Idle

RagFrame ==
    UNCHANGED <<documents, chats, messages, nextDocId, nextChatId, nextMsgId,
                documentChunks, openaiKey, geminiKey, procs, lastResp, extraction, http,
                analysis, ui>>

\* NextResponse.json(...) of the rag route
RagError(status, message) ==
    [status |-> status, success |-> FALSE, error |-> TRUE, response |-> message]
RagSuccess(text) ==
    [status |-> 200, success |-> TRUE, error |-> FALSE, response |-> text]

\* The outer catch of multiDocumentRAG, then the route: a thrown error whose
\* message includes '429' becomes a returned text
Apology == <<"The analysis could not be completed">>
RagCatch(message) ==
    IF Includes(message, "429") THEN RagSuccess(Apology) ELSE RagError(500, message)

RagDone(response) == rag' = [rag EXCEPT !.pc = "done", !.response = response]
RagFails(call, message) ==
    rag' = [rag EXCEPT !.pc = "done", !.response = RagCatch(message),
                       !.failures = Append(@, [call |-> call, message |-> message]),
                       !.lastCallFailed = TRUE]

\* The handler up to its first await after the body was read
RagPOST(query, needsAnalysis, shouldAnalyze) ==
    /\ rag.pc \in {"idle", "done"}
    /\ RagFrame
    /\ LET r == [pc |-> "search", query |-> query, needsAnalysis |-> needsAnalysis,
                 shouldAnalyze |-> shouldAnalyze, analysisResults |-> "null",
                 context |-> ContextOf(<<>>), truncatedContext |-> ContextOf(<<>>),
                 systemLength |-> 0, userLength |-> 0, totalTokens |-> 0,
                 estimated |-> <<>>,
                 calls |-> <<>>, failures |-> <<>>, lastCallFailed |-> FALSE,
                 response |-> NoResp] IN
       IF query = 0
       THEN rag' = [r EXCEPT !.pc = "done",
                             !.response = RagError(400, <<"Query parameter is required">>)]
       ELSE IF shouldAnalyze
       THEN rag' = [r EXCEPT !.pc = "analysis"]
       ELSE rag' = r

\* prisma.document.findMany and extractAndAnalyzeData, in their own try/catch
RagAnalysis(ok) ==
    /\ rag.pc = "analysis"
    /\ RagFrame
    /\ rag' = [rag EXCEPT !.pc = "search",
                          !.analysisResults = IF ok THEN "results" ELSE "null"]

\* await semanticSearch(query, limit) failing: no request is sent without a key
RagSearchFails(message) ==
    /\ rag.pc = "search"
    /\ RagFrame
    /\ IF GetOpenAIThrows
       THEN /\ message = KeyMissingMessage
            /\ RagDone(RagCatch(message))
       ELSE /\ message \in UpstreamMessages
            /\ RagFails("embedding", message)

\* await semanticSearch(query, limit) returning n results, then the messages,
\* the choice of the provider and the truncation for OpenAI
RagSearch(n, analysisData) ==
    /\ rag.pc = "search"
    /\ openaiKey = ValidOpenAIKey
    /\ rag.needsAnalysis \/ analysisData = "none"
    /\ RagFrame
    /\ LET context == ContextOf(searchResults(n))
           analysisLength == AnalysisLength(analysisData, rag.query, context)
           systemLength == SystemLength(rag.needsAnalysis)
           userLength == UserFrameLength + rag.query + ContextLength(context)
                             + analysisLength
           totalTokens == estimateTokenCount(systemLength)
                              + estimateTokenCount(userLength)
           truncatedContext == IF totalTokens > OpenAITokenLimit
                               THEN truncateContext(context, maxContextTokens)
                               ELSE context
           r == [rag EXCEPT !.context = context, !.systemLength = systemLength,
                            !.userLength = userLength, !.totalTokens = totalTokens,
                            !.estimated = <<systemLength, userLength>>]
       IN IF useGemini(totalTokens)
          THEN IF geminiKey \in {UnsetKey, PlaceholderGeminiKey}
               THEN rag' = [r EXCEPT !.pc = "done",
                                     !.response = RagCatch(GeminiKeyMessage)]
               ELSE rag' = [r EXCEPT !.pc = "gemini"]
          ELSE rag' = [r EXCEPT
                         !.pc = "chat",
                         !.truncatedContext = truncatedContext,
                         !.userLength =
                             IF totalTokens > OpenAITokenLimit
                             THEN UserFrameLength + rag.query
                                     + ContextLength(truncatedContext) + analysisLength
                             ELSE userLength]

Call(to, context, userLength) ==
    [to |-> to, context |-> context, userLength |-> userLength]

\* await gemini.generateContent(systemMessage, userMessage, 0.2, 2048)
RagGemini(ok, status) ==
    /\ rag.pc = "gemini"
    /\ RagFrame
    /\ LET sent == [rag EXCEPT !.calls = Append(@, Call("gemini", rag.context,
                                                        rag.userLength))] IN
       IF ok
       THEN rag' = [sent EXCEPT !.pc = "done", !.response = RagSuccess(<<"answer">>)]
       ELSE LET message == ErrorUsingGemini(GeminiApiError(status)) IN
            rag' = [sent EXCEPT
                       !.pc = "done", !.response = RagCatch(message),
                       !.failures = Append(@, [call |-> "gemini", message |-> message]),
                       !.lastCallFailed = TRUE]

\* The first openai.chat.completions.create and its catch
RagChat(ok, message) ==
    /\ rag.pc = "chat"
    /\ RagFrame
    /\ LET sent == [rag EXCEPT !.calls = Append(@, Call("openai", rag.truncatedContext,
                                                        rag.userLength))] IN
       IF ok
       THEN rag' = [sent EXCEPT !.pc = "done", !.response = RagSuccess(<<"answer">>)]
       ELSE LET failed == [sent EXCEPT !.failures =
                              Append(@, [call |-> "chat", message |-> message])] IN
            IF Includes(message, "Request too large")
            THEN rag' = [failed EXCEPT !.pc = "retry"]
            ELSE rag' = [failed EXCEPT !.pc = "done", !.response = RagCatch(message),
                                       !.lastCallFailed = TRUE]

\* The retry with the context reduced further
RagRetry(ok, message) ==
    /\ rag.pc = "retry"
    /\ RagFrame
    /\ LET furtherTruncatedContext == truncateContext(rag.truncatedContext, RetryBudget)
           reducedUserLength == UserFrameLength + rag.query
                                   + ContextLength(furtherTruncatedContext)
                                   + RetryNoteLength
           sent == [rag EXCEPT !.calls = Append(@, Call("openai", furtherTruncatedContext,
                                                        reducedUserLength))]
       IN IF ok
          THEN rag' = [sent EXCEPT !.pc = "done",
                                   !.response = RagSuccess(<<"answer", "Note">>)]
          ELSE rag' = [sent EXCEPT
                         !.pc = "done", !.response = RagCatch(message),
                         !.failures = Append(@, [call |-> "chat", message |-> message]),
                         !.lastCallFailed = TRUE]

NextRag ==
    \/ \E query \in RagQueries, needsAnalysis \in BOOLEAN, shouldAnalyze \in BOOLEAN :
          RagPOST(query, needsAnalysis, shouldAnalyze)
    \/ \E ok \in BOOLEAN : RagAnalysis(ok)
    \/ \E message \in UpstreamMessages \cup {KeyMissingMessage} : RagSearchFails(message)
    \/ \E n \in ResultCounts, analysisData \in AnalysisData : RagSearch(n, analysisData)
    \/ \E ok \in BOOLEAN, status \in GeminiStatuses : RagGemini(ok, status)
    \/ \E ok \in BOOLEAN, message \in UpstreamMessages : RagChat(ok, message)
    \/ \E ok \in BOOLEAN, message \in UpstreamMessages : RagRetry(ok, message)

SpecRag == InitRag /\ [][NextRag]_vars

-----------------------------------------------------------------------------
(* The path of one request through each HTTP handler *)

\* A step of a handler: a call that can throw, the catch that a throw in it
\* reaches ("outer": the handler's outer catch; "continue": an inner catch
\* that goes on with a fallback; "inner": an inner catch that answers with
\* innerStatus), and the status of the early return that can follow the step
\* (NoReturn: none)
NoReturn == 0
Step(name, catch, innerStatus, reject) ==
    [name |-> name, catch |-> catch, innerStatus |-> innerStatus, reject |-> reject]
Outer(name) == Step(name, "outer", 500, NoReturn)
Checked(name, reject) == Step(name, "outer", 500, reject)

Handlers ==
    {"documents POST", "documents DELETE", "documents PATCH", "documents GET",
     "chat POST", "chat GET", "search GET", "search POST", "rag POST",
     "gemini POST", "gemini check GET", "env-test GET"}

Steps(handler) ==
    CASE handler = "documents POST" ->
            <<Checked("request.formData", 400), Outer("file.arrayBuffer"),
              Step("extract text", "continue", 500, 400),
              Outer("convertToMarkdown"), Outer("extractMetadata"),
              Outer("document.create")>>
      [] handler = "documents DELETE" ->
            <<Checked("searchParams", 400), Checked("document.findUnique", 404),
              Outer("message.deleteMany"), Outer("chat.deleteMany"),
              Outer("document.delete")>>
      [] handler = "documents PATCH" ->
            <<Checked("searchParams", 400), Checked("document.findUnique", 404),
              Outer("document.update")>>
      [] handler = "documents GET" ->
            <<Outer("searchParams"), Checked("document.find", 404)>>
      [] handler = "chat POST" ->
            <<Checked("request.json", 400), Checked("document.findUnique", 404),
              Outer("chat.findFirst"), Outer("chat.create"),
              Checked("message.create", 500),
              Step("chat.completions.create", "inner", 500, NoReturn),
              Step("message.create", "inner", 500, NoReturn)>>
      [] handler = "chat GET" ->
            <<Checked("searchParams", 400), Outer("chat.findMany")>>
      [] handler = "search GET" ->
            <<Checked("searchParams", 400), Outer("semanticSearch")>>
      [] handler = "search POST" ->
            <<Checked("request.json", 400), Outer("processAllDocuments")>>
      [] handler = "rag POST" ->
            <<Checked("request.json", 400),
              Step("extractAndAnalyzeData", "continue", 500, NoReturn),
              Step("multiDocumentRAG", "multiDocumentRAG", 500, NoReturn)>>
      [] handler = "gemini POST" ->
            <<Checked("request.json", 400),
              Step("isValidApiKey", "inner", 400, 400),
              Outer("semanticSearch"),
              Step("generateAnalysisReport", "continue", 500, NoReturn),
              Step("extractAndAnalyzeData", "continue", 500, NoReturn),
              Step("generateContent", "inner", 500, NoReturn)>>
      [] handler = "gemini check GET" -> <<Outer("process.env")>>
      [] handler = "env-test GET" -> <<Outer("process.env")>>

\* What a throwing call throws: an error whose message holds '429' or not
Thrown == {<<"429", "Rate limit reached">>, <<"Connection error">>}

InitHttp ==
    /\ InitStore
    /\ openaiKey = ValidOpenAIKey
    /\ geminiKey = ValidGeminiKey
    /\ extraction = Idle /\ rag = Idle /\ http = Idle /\ analysis = Idle /\ ui = Idle

HttpFrame ==
    UNCHANGED <<documents, chats, messages, nextDocId, nextChatId, nextMsgId,
                documentChunks, openaiKey, geminiKey, procs, lastResp, extraction, rag,
                analysis, ui>>

\* NextResponse.json(body, { status }): does the body carry an error field
Json(status, error) == [json |-> TRUE, status |-> status, error |-> error]
Responds(response) == http' = [http EXCEPT !.pc = "responded", !.response = response]
\* The step done, the handler goes on: to its next step or to its last return
GoesOn(h) ==
    IF h.step < Len(Steps(h.handler))
    THEN http' = [h EXCEPT !.step = @ + 1]
    ELSE http' = [h EXCEPT !.pc = "responded", !.response = Json(200, FALSE)]

HttpRequest(handler) ==
    /\ http.pc \in {"idle", "responded"}
    /\ http' = [pc |-> "handling", handler |-> handler, step |-> 1, thrown |-> <<>>,
                response |-> NoResp]
    /\ HttpFrame

HttpStepReturns ==
    /\ http.pc = "handling"
    /\ GoesOn(http)
    /\ HttpFrame

\* The early return after a step: a validation that fails
HttpStepRejects ==
    /\ http.pc = "handling"
    /\ Steps(http.handler)[http.step].reject # NoReturn
    /\ Responds(Json(Steps(http.handler)[http.step].reject, TRUE))
    /\ HttpFrame

HttpStepThrows(message) ==
    /\ http.pc = "handling"
    /\ HttpFrame
    /\ LET step == Steps(http.handler)[http.step]
           threw == [http EXCEPT !.thrown = Append(@, step.name)]
       IN CASE step.catch = "outer" ->
                  http' = [threw EXCEPT !.pc = "responded", !.response = Json(500, TRUE)]
            [] step.catch = "inner" ->
                  http' = [threw EXCEPT !.pc = "responded",
                                        !.response = Json(step.innerStatus, TRUE)]
            [] step.catch = "continue" -> GoesOn(threw)
            [] step.catch = "multiDocumentRAG" ->
                  \* a call inside multiDocumentRAG threw: its catch returns a
                  \* text for a message that includes '429', else rethrows
                  IF Includes(message, "429") THEN GoesOn(threw)
                  ELSE http' = [threw EXCEPT !.pc = "responded",
                                             !.response = Json(500, TRUE)]

NextHttp ==
    \/ \E handler \in Handlers : HttpRequest(handler)
    \/ HttpStepReturns
    \/ HttpStepRejects
    \/ \E message \in Thrown : HttpStepThrows(message)

SpecHttp == InitHttp /\ [][NextHttp]_vars

\* C3: every handler answers every request with JSON, and a request in which
\* a step threw is answered with an error field and a 4xx/5xx status.
C3_ThrowGivesErrorResponse ==
    http.pc = "responded"
        => /\ http.response.json
           /\ http.thrown # <<>>
                => http.response.error /\ http.response.status \in 400..599

\* C4: a POST /api/rag request whose last embedding, chat-completion or Gemini
\* call failed is answered with an error payload and a 4xx/5xx status, never
\* with 200 and success: true.
C4_FailedUpstreamGivesError ==
    (rag.pc = "done" /\ rag.lastCallFailed)
        => /\ rag.response.error
           /\ rag.response.status \in 400..599
           /\ ~rag.response.success

\* C2: the OpenAI path calls the chat-completion endpoint at most twice; the
\* second call follows only a first call that failed with 'Request too
\* large', carries the context truncated to floor(maxContextTokens / 2)
\* tokens, and its failure is propagated: the request ends with that error.
C2_SingleRetry ==
    (rag.pc # "idle" /\ \A k \in 1..Len(rag.calls) : rag.calls[k].to = "openai")
        => /\ Len(rag.calls) <= 2
           /\ rag.pc = "retry" \/ Len(rag.calls) = 2
                => /\ rag.failures # <<>>
                   /\ rag.failures[1].call = "chat"
                   /\ Includes(rag.failures[1].message, "Request too large")
           /\ Len(rag.calls) = 2
                => rag.calls[2].context
                     = truncateContext(rag.calls[1].context, maxContextTokens \div 2)
           /\ (rag.pc = "done" /\ Len(rag.failures) = 2)
                => /\ rag.response.error
                   /\ rag.response.status = 500
                   /\ rag.response.response = rag.failures[2].message

\* C10: the first generation request goes to Gemini exactly when
\* ceil(|system| / 4) + ceil(|user| / 4) exceeds 100000 and to OpenAI otherwise,
\* no request goes to the other provider, and with Gemini chosen and
\* GEMINI_API_KEY unset or the placeholder the request ends with the
\* configuration error before any generation request.
C10_ProviderSelection ==
    (rag.pc # "idle" /\ rag.estimated # <<>>)
        => LET system == rag.estimated[1]
               user == rag.estimated[2]
               tokens == (system + 3) \div 4 + (user + 3) \div 4
               provider == IF tokens > 100000 THEN "gemini" ELSE "openai"
           IN /\ \A k \in 1..Len(rag.calls) : rag.calls[k].to = provider
              /\ rag.pc = "gemini" => provider = "gemini"
              /\ rag.pc \in {"chat", "retry"} => provider = "openai"
              /\ (provider = "gemini" /\ geminiKey \in {"", "your_gemini_api_key_here"})
                    => /\ rag.pc = "done"
                       /\ rag.calls = <<>>
                       /\ rag.response.error /\ rag.response.status = 500
                       /\ rag.response.response = GeminiKeyMessage

\* A request whose messages are estimated at 100001 tokens ended with the
\* configuration error because the key is the placeholder.
C10_Witness ==
    /\ rag.pc = "done" /\ rag.estimated # <<>>
    /\ estimateTokenCount(rag.estimated[1]) + estimateTokenCount(rag.estimated[2])
          = GeminiThreshold + 1
    /\ geminiKey = PlaceholderGeminiKey
    /\ rag.response.status = 500

-----------------------------------------------------------------------------
(* Properties of the search side (SpecSearch) *)

SearchRecords ==
    {r \in DOMAIN procs : r.kind = "search"}
        \cup (IF lastResp.kind = "search" THEN {lastResp.data} ELSE {})

RECURSIVE Flatten(_)
Flatten(seqs) == IF seqs = <<>> THEN <<>> ELSE Head(seqs) \o Flatten(Tail(seqs))

Texts(chunks) == [i \in 1..Len(chunks) |-> chunks[i].content]
\* The chunk texts of the first n listed documents, as the map holds them
ListedTexts(r, n) == Flatten([k \in 1..n |-> Texts(documentChunks[r.listed[k].id])])

C5_LookupsLazy ==
    \A r \in SearchRecords : \A k \in 1..Len(r.lookups) :
        r.lookups[k].built <=> ~r.lookups[k].had
C5_EntryUsedAsIs ==
    \A r \in DOMAIN procs :
        (r.kind = "search" /\ r.pc = "embedChunk")
            => /\ r.listed[r.d].id \in DOMAIN documentChunks
               /\ r.chunks = documentChunks[r.listed[r.d].id]
C5_NeverRemoved == DOMAIN documentChunks \subseteq DOMAIN documentChunks'

\* C5: semanticSearch builds the chunks of a listed document exactly when the
\* documentChunks map has no entry for it at the moment of the lookup, embeds
\* the entry it finds otherwise, and no step of any handler removes an entry.
C5_LazyNeverInvalidated ==
    /\ [](C5_LookupsLazy /\ C5_EntryUsedAsIs)
    /\ [][C5_NeverRemoved]_vars

\* A search ended that found one entry and built another, and the map still
\* holds the entry of a document that was deleted.
C5_Witness ==
    /\ lastResp.kind = "search" /\ lastResp.status = 200
    /\ \E k \in 1..Len(lastResp.data.lookups) : lastResp.data.lookups[k].had
    /\ \E k \in 1..Len(lastResp.data.lookups) : lastResp.data.lookups[k].built
    /\ \E id \in DOMAIN documentChunks : id \notin DOMAIN documents

\* The number of chunks of the listed documents (a document that was deleted
\* before its chunks were ever made has none)
ChunkTotal(r) ==
    Len(Flatten([k \in 1..Len(r.listed) |->
                    IF r.listed[k].id \in DOMAIN documentChunks
                    THEN Texts(documentChunks[r.listed[k].id]) ELSE <<>>]))

\* C6 as stated: every invocation of semanticSearch, however it ends, has
\* issued exactly 1 + C embedding requests.
C6_EveryInvocationIssuesAll ==
    (lastResp.kind = "search" /\ lastResp.status # 400)
        => Len(lastResp.data.embedLog) = 1 + ChunkTotal(lastResp.data)

\* C6: the embedding requests of a search are the query, then every chunk of
\* every listed document in document-then-chunk order, one request per step:
\* at each point the requests issued so far are that sequence's prefix, a
\* search that returns has issued all 1 + C of them, and a search that a
\* failing step cuts short has issued only the prefix up to that step.
C6_EmbeddingRequests ==
    \A r \in SearchRecords :
        LET inFlight == r \in DOMAIN procs IN
        /\ r.pc = "list"
              => IF inFlight THEN r.embedLog = <<r.query>>
                 ELSE r.embedLog \in {<<>>, <<r.query>>}
        /\ r.pc = "createChunks"
              => r.embedLog = <<r.query>> \o ListedTexts(r, r.d - 1)
        /\ r.pc = "embedChunk"
              => r.embedLog = <<r.query>> \o ListedTexts(r, r.d - 1)
                    \o SubSeq(Texts(r.chunks), 1, IF inFlight THEN r.c - 1 ELSE r.c)
        /\ r.pc = "respond"
              => /\ r.embedLog = <<r.query>> \o ListedTexts(r, Len(r.listed))
                 /\ Len(r.embedLog) = 1 + ChunkTotal(r)

\* A search over two documents returned after an entry of the map was found:
\* its chunks were embedded again.
C6_Witness ==
    /\ lastResp.kind = "search" /\ lastResp.status = 200
    /\ Len(lastResp.data.listed) = 2
    /\ Len(lastResp.data.embedLog) >= 4
    /\ \E k \in 1..Len(lastResp.data.lookups) : lastResp.data.lookups[k].had

-----------------------------------------------------------------------------
(* Properties of the store (Spec) *)

\* C8: every Chat references an existing Document and every Message an
\* existing Chat, in every reachable state, whatever the interleaving.
C8_ReferentialIntegrity ==
    /\ \A c \in DOMAIN chats : chats[c].documentId \in DOMAIN documents
    /\ \A m \in DOMAIN messages : messages[m].chatId \in DOMAIN chats

\* A DELETE is in flight for a document that got a chat with a message after
\* the DELETE took its snapshot.
C8_Witness ==
    \E r \in DOMAIN procs :
        /\ r.kind = "delete"
        /\ \E c \in ChatsOf(r.id) : c >= r.chatMark /\ MessagesOf(c) # {}

C7_SuccessLeavesNothing ==
    (lastResp.kind = "delete" /\ lastResp.status = 200)
        => LET x == lastResp.data.id IN
           /\ x \notin DOMAIN documents
           /\ ChatsOf(x) = {}
           /\ \A m \in DOMAIN messages : messages[m].chatId \in DOMAIN chats
\* A DELETE that fails was overtaken: a chat or a message was created after its
\* snapshot, or the document was deleted by another request.
C7_FailsOnlyWhenOvertaken ==
    (lastResp.kind = "delete" /\ lastResp.status = 500)
        => LET r == lastResp.data IN
           \/ r.id \notin DOMAIN documents
           \/ nextChatId > r.chatMark
           \/ nextMsgId > r.msgMark
C7_Order ==
    /\ \A c \in DOMAIN chats \ DOMAIN chats' : MessagesOf(c) = {}
    /\ \A d \in DOMAIN documents \ DOMAIN documents' : ChatsOf(d) = {}

\* C7: DELETE removes the messages of the document's chats, then its chats,
\* then the document: a chat goes only once it has no message, a document only
\* once it has no chat, the foreign keys are violated only when another request
\* created a row meanwhile, and after a success nothing of the document remains.
C7_DeleteOrder ==
    /\ [](C7_SuccessLeavesNothing /\ C7_FailsOnlyWhenOvertaken)
    /\ [][C7_Order]_vars

\* A DELETE of a document that had a chat with a message answered success.
C7_Witness ==
    /\ lastResp.kind = "delete" /\ lastResp.status = 200
    /\ lastResp.data.snap # <<>>
    /\ lastResp.data.msgMark > 1

\* C9: PATCH answers 400 exactly when id or folder is missing, 404 when the
\* lookup finds no document, both without a change of the store; a success
\* changes the folder of the addressed document and nothing else.
C9_PatchStep ==
    lastResp'.kind = "patch" =>
        LET q == lastResp'.data
            s == lastResp'.status
            missing == q.id = NoId \/ q.folder = ""
            arrived == procs' = procs
        IN /\ missing <=> s = 400
           /\ (arrived /\ ~missing /\ q.id \notin DOMAIN documents) <=> s = 404
           /\ s # 200 => store' = store
           /\ s = 200 => /\ q.id \in DOMAIN documents
                         /\ documents' = [documents EXCEPT ![q.id].folder = q.folder]
                         /\ chats' = chats /\ messages' = messages
C9_PatchFrame == [][C9_PatchStep]_vars

\* A PATCH moved one of two documents.
C9_Witness ==
    /\ lastResp.kind = "patch" /\ lastResp.status = 200
    /\ Cardinality(DOMAIN documents) = 2
    /\ documents[lastResp.data.id].folder = "Research"
    /\ \E d \in DOMAIN documents : documents[d].folder = "Unclassified"

-----------------------------------------------------------------------------
(* performAnalysis and the council tax analysis (SpecAnalysis) *)

\* Texts are sequences of characters
UpperCase == <<"A", "C", "G", "K", "L", "P", "S", "T", "W">>
LowerCase == <<"a", "c", "g", "k", "l", "p", "s", "t", "w">>
toLowerCaseChar(c) ==
    IF \E k \in 1..Len(UpperCase) : UpperCase[k] = c
    THEN LowerCase[CHOOSE k \in 1..Len(UpperCase) : UpperCase[k] = c]
    ELSE c
toLowerCase(text) == [k \in 1..Len(text) |-> toLowerCaseChar(text[k])]
\* text.includes(phrase)
includes(text, phrase) ==
    \E k \in 1..(Len(text) - Len(phrase) + 1) :
        SubSeq(text, k, k + Len(phrase) - 1) = phrase

CouncilTaxPhrase == <<"c", "o", "u", "n", "c", "i", "l", " ", "t", "a", "x">>
TaxRatePhrase == <<"t", "a", "x", " ", "r", "a", "t", "e">>
SpendingPhrase == <<"s", "p", "e", "n", "d", "i", "n", "g">>
\* The phrases that detectAnalysisType looks for, by condition
TaxTopics == {CouncilTaxPhrase, TaxRatePhrase}
PartyTerms ==
    {<<"l", "a", "b", "o", "u", "r">>,
     <<"c", "o", "n", "s", "e", "r", "v", "a", "t", "i", "v", "e">>,
     <<"p", "a", "r", "t", "y">>,
     <<"p", "o", "l", "i", "t", "i", "c", "a", "l">>}
BudgetTopics == {<<"b", "u", "d", "g", "e", "t">>, SpendingPhrase}
ComparisonTerms ==
    {<<"c", "o", "m", "p", "a", "r", "e">>,
     <<"c", "o", "m", "p", "a", "r", "i", "s", "o", "n">>,
     <<"d", "i", "f", "f", "e", "r", "e", "n", "c", "e">>}
SpendingTerms ==
    {<<"s", "p", "e", "n", "d">>,
     <<"e", "x", "p", "e", "n", "d", "i", "t", "u", "r", "e">>,
     <<"c", "o", "s", "t">>,
     <<"f", "u", "n", "d", "i", "n", "g">>}
DemographicTerms ==
    {<<"d", "e", "m", "o", "g", "r", "a", "p", "h", "i", "c">>,
     <<"p", "o", "p", "u", "l", "a", "t", "i", "o", "n">>,
     <<"a", "g", "e", " ", "g", "r", "o", "u", "p">>,
     <<"e", "t", "h", "n", "i", "c", "i", "t", "y">>}
ElectionTerms ==
    {<<"e", "l", "e", "c", "t", "i", "o", "n">>,
     <<"v", "o", "t", "e">>,
     <<"b", "a", "l", "l", "o", "t">>,
     <<"w", "o", "n">>,
     <<"m", "a", "j", "o", "r", "i", "t", "y">>}

\* The words of the queries
QueryWords ==
    {<<"C", "o", "u", "n", "c", "i", "l", " ", "T", "a", "x">>,
     <<"t", "a", "x", " ", "r", "a", "t", "e">>,
     <<"L", "a", "b", "o", "u", "r">>,
     <<"p", "a", "r", "t", "y">>,
     <<"b", "u", "d", "g", "e", "t">>,
     <<"s", "p", "e", "n", "d", "i", "n", "g">>,
     <<"C", "o", "m", "p", "a", "r", "e">>,
     <<"c", "o", "s", "t">>,
     <<"P", "o", "p", "u", "l", "a", "t", "i", "o", "n">>,
     <<"e", "l", "e", "c", "t", "i", "o", "n">>,
     <<"w", "o", "n", "d", "e", "r">>,
     <<"h", "e", "l", "l", "o">>}
Space == <<" ">>
MaxQueryWords == 2
RECURSIVE QueriesOf(_)
QueriesOf(n) ==
    IF n = 1 THEN QueryWords
    ELSE QueriesOf(n - 1)
            \cup {query \o Space \o word : query \in QueriesOf(n - 1), word \in QueryWords}
AnalysisQueries == QueriesOf(MaxQueryWords)

detectAnalysisType(query) ==
    LET lowerQuery == toLowerCase(query)
        hasAny(phrases) == \E phrase \in phrases : includes(lowerQuery, phrase) IN
    IF hasAny(TaxTopics) /\ hasAny(PartyTerms) THEN "council_tax"
    ELSE IF hasAny(BudgetTopics) /\ hasAny(ComparisonTerms) THEN "budget_comparison"
    ELSE IF hasAny(SpendingTerms) THEN "spending_analysis"
    ELSE IF hasAny(DemographicTerms) THEN "demographic_analysis"
    ELSE IF hasAny(ElectionTerms) THEN "election_results"
    ELSE "general"

\* Percentages are counted in hundredths; an average is a fraction
Labour == <<"L", "a", "b", "o", "u", "r">>
Conservative == <<"C", "o", "n", "s", "e", "r", "v", "a", "t", "i", "v", "e">>
Tory == <<"T", "o", "r", "y">>
LowerLabour == <<"l", "a", "b", "o", "u", "r">>
Green == <<"G", "r", "e", "e", "n">>
Unknown == <<"U", "n", "k", "n", "o", "w", "n">>
Leeds == <<"L", "e", "e", "d", "s">>
Kent == <<"K", "e", "n", "t">>
WestKent == <<"W", "e", "s", "t", " ", "K", "e", "n", "t">>
AuthorityHeader == <<"A", "u", "t", "h", "o", "r", "i", "t", "y">>
ControlHeader == <<"C", "o", "n", "t", "r", "o", "l">>
Stroud == <<"S", "t", "r", "o", "u", "d">>
TaxYear == "2025-2026"

\* loadSampleCouncilTaxData()
loadSampleCouncilTaxData ==
    <<[authority |-> <<"M", "a", "n", "c", "h", "e", "s", "t", "e", "r">>, politicalControl |-> Labour,
       percentageChange |-> 499, year |-> TaxYear, authorityType |-> "Metropolitan District"],
      [authority |-> <<"B", "i", "r", "m", "i", "n", "g", "h", "a", "m">>, politicalControl |-> Labour,
       percentageChange |-> 475, year |-> TaxYear, authorityType |-> "Metropolitan District"],
      [authority |-> <<"S", "u", "r", "r", "e", "y">>, politicalControl |-> Conservative,
       percentageChange |-> 399, year |-> TaxYear, authorityType |-> "County"],
      [authority |-> <<"B", "u", "c", "k", "i", "n", "g", "h", "a", "m", "s", "h", "i", "r", "e">>, politicalControl |-> Conservative,
       percentageChange |-> 350, year |-> TaxYear, authorityType |-> "County"],
      [authority |-> <<"O", "x", "f", "o", "r", "d">>, politicalControl |-> Labour,
       percentageChange |-> 485, year |-> TaxYear, authorityType |-> "District"],
      [authority |-> <<"W", "i", "n", "d", "s", "o", "r", " ", "a", "n", "d", " ", "M", "a", "i", "d", "e", "n", "h", "e", "a", "d">>, politicalControl |-> Conservative,
       percentageChange |-> 375, year |-> TaxYear, authorityType |-> "Unitary"]>>

\* The documents of the analysis: a line of the political control document is
\* 'authority, control'; a line of the council tax document carries an
\* authority and, when the pattern of the percentage matches it, a percentage
NoPercentage == [matched |-> FALSE, value |-> 0]
Percentage(hundredths) == [matched |-> TRUE, value |-> hundredths]
ControlLine(authority, control) == [authority |-> authority, control |-> control]
TaxLine(authority, percentage, authorityType) ==
    [authority |-> authority, percentage |-> percentage, authorityType |-> authorityType]
StoredDocument(title, content) ==
    [title |-> title, content |-> content, markdown |-> <<"# ", title, content>>,
     metadata |-> [fileName |-> title, wordCount |-> Len(content)],
     folder |-> "Unclassified"]
ControlDocument ==
    StoredDocument(<<"P", "o", "l", "i", "t", "i", "c", "a", "l", " ", "C", "o", "n", "t", "r", "o", "l">>,
                   <<ControlLine(AuthorityHeader, ControlHeader),
                     ControlLine(Leeds, Labour), ControlLine(Kent, Tory),
                     ControlLine(Stroud, Green)>>)
LowerControlDocument ==
    StoredDocument(<<"c", "o", "u", "n", "c", "i", "l", " ", "c", "o", "n", "t", "r", "o", "l">>,
                   <<ControlLine(Leeds, LowerLabour), ControlLine(Kent, Conservative)>>)
TaxDocument ==
    StoredDocument(<<"C", "o", "u", "n", "c", "i", "l", " ", "T", "a", "x">>,
                   <<TaxLine(Leeds, Percentage(499), "Metropolitan District"),
                     TaxLine(WestKent, Percentage(350), "Shire County"),
                     TaxLine(Stroud, NoPercentage, "Unknown")>>)
TaxDocumentWithoutMatch ==
    StoredDocument(<<"t", "a", "b", "l", "e", "_", "8">>,
                   <<TaxLine(Leeds, NoPercentage, "Unknown")>>)
NotesDocument == StoredDocument(<<"n", "o", "t", "e", "s">>, <<>>)
AnalysisDocuments ==
    {ControlDocument, LowerControlDocument, TaxDocument, TaxDocumentWithoutMatch,
     NotesDocument}
\* The stores: none, one or two of these documents
AnalysisStores ==
    {<<>>} \cup {<<d>> : d \in AnalysisDocuments}
           \cup {<<d, e>> : d \in AnalysisDocuments, e \in AnalysisDocuments}

PoliticalControlPhrase == <<"p", "o", "l", "i", "t", "i", "c", "a", "l", " ", "c", "o", "n", "t", "r", "o", "l">>
CouncilControlPhrase == <<"c", "o", "u", "n", "c", "i", "l", " ", "c", "o", "n", "t", "r", "o", "l">>
Table8Phrase == <<"t", "a", "b", "l", "e", "_", "8">>
LowerConservative == <<"c", "o", "n", "s", "e", "r", "v", "a", "t", "i", "v", "e">>
LowerTory == <<"t", "o", "r", "y">>
AuthorityPhrase == <<"a", "u", "t", "h", "o", "r", "i", "t", "y">>

\* documents.find(doc => ...): the first that satisfies the test, or undefined
Find(docs, found) ==
    IF found = {} THEN Undefined ELSE [defined |-> TRUE, value |-> docs[Min(found)]]

\* politicalControlMap.set(key, value): a new key goes to the end
MapSet(map, key, value) ==
    IF \E k \in 1..Len(map) : map[k].key = key
    THEN [k \in 1..Len(map) |-> IF map[k].key = key THEN [key |-> key, value |-> value]
                                ELSE map[k]]
    ELSE Append(map, [key |-> key, value |-> value])

RECURSIVE ControlMap(_, _)
ControlMap(lines, map) ==
    IF lines = <<>> THEN map
    ELSE LET line == Head(lines)
             control == toLowerCase(line.control) IN
         IF control \in {LowerLabour, LowerConservative, LowerTory}
         THEN ControlMap(Tail(lines),
                         MapSet(map, toLowerCase(line.authority),
                                IF control = LowerTory THEN Conservative ELSE line.control))
         ELSE ControlMap(Tail(lines), map)

\* const startIndex = lines[0].toLowerCase().includes('authority') ? 1 : 0
SkipHeader(lines) ==
    IF lines # <<>> /\ includes(toLowerCase(lines[1].authority), AuthorityPhrase)
    THEN Tail(lines) ELSE lines

\* The political control of an authority: the exact key, else the first key
\* that is part of the name or that the name is part of, else 'Unknown'
PoliticalControlOf(authority, map) ==
    LET name == toLowerCase(authority)
        exact == {k \in 1..Len(map) : map[k].key = name}
        partial == {k \in 1..Len(map) : includes(name, map[k].key) \/ includes(map[k].key, name)}
    IN IF exact # {} THEN map[Min(exact)].value
       ELSE IF partial # {} THEN map[Min(partial)].value
       ELSE Unknown

RECURSIVE TaxEntries(_, _)
TaxEntries(lines, map) ==
    IF lines = <<>> THEN <<>>
    ELSE LET line == Head(lines) IN
         IF line.percentage.matched
         THEN <<[authority |-> line.authority,
                 politicalControl |-> PoliticalControlOf(line.authority, map),
                 percentageChange |-> line.percentage.value, year |-> TaxYear,
                 authorityType |-> line.authorityType]>> \o TaxEntries(Tail(lines), map)
         ELSE TaxEntries(Tail(lines), map)

Filter(entries, party) == SelectSeq(entries, LAMBDA c : c.politicalControl = party)
Average(councils) ==
    IF Len(councils) > 0
    THEN [num |-> SumOf([k \in 1..Len(councils) |-> councils[k].percentageChange]),
          den |-> Len(councils)]
    ELSE [num |-> 0, den |-> 1]
Minus(a, b) == [num |-> a.num * b.den - b.num * a.den, den |-> a.den * b.den]
Abs(a) == [num |-> IF a.num < 0 THEN 0 - a.num ELSE a.num, den |-> a.den]
Summary(councilData) ==
    LET labourCouncils == Filter(councilData, Labour)
        conservativeCouncils == Filter(councilData, Conservative)
        difference == Minus(Average(labourCouncils), Average(conservativeCouncils))
    IN [labourAverage |-> Average(labourCouncils),
        conservativeAverage |-> Average(conservativeCouncils),
        difference |-> Abs(difference),
        higherParty |-> IF difference.num > 0 THEN Labour ELSE Conservative,
        labourCount |-> Len(labourCouncils),
        conservativeCount |-> Len(conservativeCouncils),
        councilData |-> councilData]

\* documentIds: undefined, or an array of ids
NoIds == [defined |-> FALSE, value |-> {}]
Ids(set) == [defined |-> TRUE, value |-> set]
DocumentIdInputs == {NoIds} \cup {Ids(set) : set \in SUBSET DocIdInputs}

\* prisma.document.findMany({ where: documentIds ? { id: { in: documentIds } } : {} })
FindMany(documentIds) ==
    LET ids == SetToSeq(DOMAIN documents)
        rows == [k \in 1..Len(ids) |-> [id |-> ids[k], doc |-> documents[ids[k]]]]
    IN IF documentIds.defined
       THEN SelectSeq(rows, LAMBDA row : row.id \in documentIds.value)
       ELSE rows

\* analyzeCouncilTaxData(documentIds, true), once the documents are read
analyzeCouncilTaxData(documentIds) ==
    LET rows == FindMany(documentIds)
        docs == [k \in 1..Len(rows) |-> rows[k].doc]
        IsControl(doc) == \/ includes(toLowerCase(doc.title), PoliticalControlPhrase)
                          \/ includes(toLowerCase(doc.title), CouncilControlPhrase)
        IsTax(doc) == \/ includes(toLowerCase(doc.title), CouncilTaxPhrase)
                      \/ includes(toLowerCase(doc.title), TaxRatePhrase)
                      \/ includes(toLowerCase(doc.title), Table8Phrase)
        politicalControlDoc == Find(docs, {k \in 1..Len(docs) : IsControl(docs[k])})
        councilTaxDoc == Find(docs, {k \in 1..Len(docs) : IsTax(docs[k])})
        politicalControlMap ==
            IF politicalControlDoc.defined
            THEN ControlMap(SkipHeader(politicalControlDoc.value.content), <<>>) ELSE <<>>
        councilTaxData ==
            IF councilTaxDoc.defined
            THEN TaxEntries(councilTaxDoc.value.content, politicalControlMap) ELSE <<>>
    IN [summary |-> Summary(councilTaxData),
        debug |-> [documentsAnalyzed |-> Len(docs),
                   documentTitles |-> [k \in 1..Len(docs) |-> docs[k].title],
                   politicalControlFound |-> politicalControlDoc.defined,
                   councilTaxDocFound |-> councilTaxDoc.defined,
                   totalEntriesExtracted |-> Len(councilTaxData)]]

\* The rest of analyzeCouncilTaxDataWithFallback, after analyzeCouncilTaxData
UseSampleWhenever(result, useSampleIfEmpty) == useSampleIfEmpty
UseSample(result, useSampleIfEmpty) ==
    Len(result.summary.councilData) = 0 /\ useSampleIfEmpty
WithFallback(result, useSampleIfEmpty) ==
    IF UseSample(result, useSampleIfEmpty)
    THEN [summary |-> Summary(loadSampleCouncilTaxData),
          debug |-> [usingSampleData |-> TRUE,
                     realDocumentsAnalyzed |-> result.debug.documentsAnalyzed,
                     reason |-> "No council tax data found in actual documents"]]
    ELSE result

\* The switch of performAnalysis: the type of the result for a detected type
AlwaysGeneral(analysisType) == "general"
ResultType(analysisType) ==
    CASE analysisType = "council_tax" -> "council_tax"
      [] analysisType = "budget_comparison" -> "budget_comparison"
      [] analysisType = "spending_analysis" -> "spending_analysis"
      [] OTHER -> "general"

InitAnalysis ==
    /\ documents \in AnalysisStores
    /\ nextDocId = Len(documents) + 1
    /\ chats = <<>> /\ messages = <<>> /\ nextChatId = 1 /\ nextMsgId = 1
    /\ documentChunks = <<>> /\ procs = <<>> /\ lastResp = NoResp
    /\ openaiKey = ValidOpenAIKey
    /\ geminiKey = UnsetKey
    /\ extraction = Idle /\ rag = Idle /\ http = Idle
    /\ analysis = [pc |-> "start"]
    /\ ui = Idle

AnalysisFrame ==
    UNCHANGED <<documents, chats, messages, nextDocId, nextChatId, nextMsgId,
                documentChunks, openaiKey, geminiKey, procs, lastResp, extraction, rag,
                http, ui>>

ReportError == "Error generating council tax report. Please check the data and try again."

\* performAnalysis(query, documents) up to its first await
PerformAnalysis(query, ids) ==
    /\ analysis.pc = "start"
    /\ AnalysisFrame
    /\ LET analysisType == detectAnalysisType(query)
           call == [pc |-> "done", call |-> "performAnalysis", query |-> query,
                    analysisType |-> analysisType,
                    documentIds |-> Ids(ids \ {NoId}), useSampleIfEmpty |-> TRUE,
                    report |-> "", thrown |-> FALSE,
                    result |-> [type |-> ResultType(analysisType), data |-> <<>>]]
       IN IF analysisType = "council_tax"
          THEN analysis' = [call EXCEPT !.pc = "report"]
          ELSE analysis' = call

\* await generateCouncilTaxReport(documentIds, true), which catches every error
GenerateReport(found) ==
    /\ analysis.pc = "report"
    /\ AnalysisFrame
    /\ analysis' = [analysis EXCEPT !.pc = "data",
                                    !.report = IF found THEN "## Council Tax Increase Analysis"
                                               ELSE ReportError]

\* data: await analyzeCouncilTaxDataWithFallback(documentIds, true)
CouncilTaxData(found) ==
    /\ analysis.pc = "data"
    /\ AnalysisFrame
    /\ IF found
       THEN analysis' = [analysis EXCEPT
               !.pc = "done",
               !.result.data = WithFallback(analyzeCouncilTaxData(analysis.documentIds),
                                            TRUE)]
       ELSE analysis' = [analysis EXCEPT !.pc = "done", !.thrown = TRUE]

\* analyzeCouncilTaxDataWithFallback(documentIds, useSampleIfEmpty): findMany
\* answers or rejects
FallbackCall(documentIds, useSampleIfEmpty, found) ==
    /\ analysis.pc = "start"
    /\ AnalysisFrame
    /\ analysis' = [pc |-> "returned", call |-> "analyzeCouncilTaxDataWithFallback",
                    query |-> <<>>, analysisType |-> "",
                    documentIds |-> documentIds, useSampleIfEmpty |-> useSampleIfEmpty,
                    report |-> "", thrown |-> ~found,
                    result |-> IF found
                               THEN WithFallback(analyzeCouncilTaxData(documentIds),
                                                 useSampleIfEmpty)
                               ELSE <<>>]

NextAnalysis ==
    \/ \E query \in AnalysisQueries, ids \in SUBSET DocIdInputs : PerformAnalysis(query, ids)
    \/ \E found \in BOOLEAN : GenerateReport(found)
    \/ \E found \in BOOLEAN : CouncilTaxData(found)
    \/ \E documentIds \in DocumentIdInputs, useSampleIfEmpty \in BOOLEAN, found \in BOOLEAN :
          FallbackCall(documentIds, useSampleIfEmpty, found)

SpecAnalysis == InitAnalysis /\ [][NextAnalysis]_vars

-----------------------------------------------------------------------------
(* POST /api/gemini, GET /api/gemini and GET /api/env-test (SpecGemini) *)

\* A second configured value of each key, as long as the first
OtherOpenAIKey == "sk-test"
OtherGeminiKey == "AIza-test"
KeyLength(key) ==
    CASE key = UnsetKey -> 0
      [] key \in {PlaceholderOpenAIKey, PlaceholderGeminiKey} -> 24
      [] key \in {ValidOpenAIKey, OtherOpenAIKey} -> 7
      [] key \in {ValidGeminiKey, OtherGeminiKey} -> 9

\* if (!apiKey || apiKey === 'your_gemini_api_key_here')
GeminiKeyPresent(key) == key # UnsetKey
GeminiKeyConfigured(key) == key # UnsetKey /\ key # PlaceholderGeminiKey

DefaultDocumentLimit == 15
GeminiQueries == {<<>>, <<"h", "e", "l", "l", "o">>, <<"e", "l", "e", "c", "t", "i", "o", "n">>}
GeminiLimits == {0, 1}
MaxFailing == 2

GeminiNotConfigured ==
    "Gemini API key is not configured. Please add GEMINI_API_KEY to your .env.local file."
GeminiInvalid == "Gemini API key is invalid. Please check your API key."

InitGemini ==
    /\ InitStore
    /\ openaiKey \in OpenAIKeys \cup {OtherOpenAIKey}
    /\ geminiKey \in GeminiKeys \cup {OtherGeminiKey}
    /\ extraction = Idle /\ rag = Idle /\ http = Idle /\ analysis = Idle /\ ui = Idle

GeminiStoreFrame ==
    UNCHANGED <<store, nextDocId, nextChatId, nextMsgId, documentChunks, openaiKey>>

\* POST /api/gemini up to the request that isValidApiKey sends
GeminiPOST(p, query, limit) ==
    /\ Arrives(p)
    /\ GeminiStoreFrame
    /\ LET r == [kind |-> "gemini", pc |-> "validate", query |-> query,
                 documentLimit |-> IF limit = 0 THEN DefaultDocumentLimit ELSE limit,
                 isValid |-> "unknown", searches |-> 0, embedLog |-> <<>>,
                 results |-> 0, error |-> <<>>] IN
       IF query = <<>>
       THEN Finish(p, Resp("gemini", 400, TRUE, [r EXCEPT !.error = <<"Query parameter is required">>]))
       ELSE IF ~GeminiKeyConfigured(geminiKey)
       THEN Finish(p, Resp("gemini", 400, TRUE, [r EXCEPT !.error = <<GeminiNotConfigured>>]))
       ELSE Continue(p, r)

\* await gemini.isValidApiKey(); then semanticSearch(query, documentLimit * 2)
\* up to the request that getEmbedding(query) sends
GeminiValidated(p, isValid) ==
    /\ At(p, "gemini", "validate")
    /\ GeminiStoreFrame
    /\ IF ~isValid
       THEN Finish(p, Resp("gemini", 400, TRUE,
                           [p EXCEPT !.isValid = "false", !.error = <<GeminiInvalid>>]))
       ELSE LET r == [p EXCEPT !.isValid = "true", !.searches = 1] IN
            IF GetOpenAIThrows
            THEN Finish(p, Resp("gemini", 500, TRUE, [r EXCEPT !.error = KeyMissingMessage]))
            ELSE Continue(p, [r EXCEPT !.pc = "embedQuery", !.embedLog = <<p.query>>])

\* The embedding of the query arrives, or the request fails
GeminiQueryEmbedded(p, ok) ==
    /\ At(p, "gemini", "embedQuery")
    /\ GeminiStoreFrame
    /\ IF ok
       THEN Continue(p, [p EXCEPT !.pc = "retrieve"])
       ELSE Finish(p, Resp("gemini", 500, TRUE, [p EXCEPT !.error = EmbeddingError]))

\* The chunks that the loop of semanticSearch meets, in its order: those of the
\* map, or those createDocumentChunks builds for a document without an entry
RECURSIVE LoopChunks(_, _)
LoopChunks(ids, d) ==
    IF d > Len(ids) THEN <<>>
    ELSE LET id == ids[d]
             chunks == IF id \in DOMAIN documentChunks THEN documentChunks[id]
                       ELSE Chunks(id, documents[id])
         IN [c \in 1..Len(chunks) |-> [d |-> d, content |-> chunks[c].content]]
                \o LoopChunks(ids, d + 1)

\* The rest of semanticSearch: the documents are listed, chunks are built for
\* those without an entry, every chunk is embedded (the request for chunk
\* number fails, if fails > 0, and ends the search); then the analysis type
\* decides whether generateAnalysisReport is called
GeminiRetrieved(p, fails) ==
    /\ At(p, "gemini", "retrieve")
    /\ UNCHANGED <<store, nextDocId, nextChatId, nextMsgId, openaiKey>>
    /\ LET ids == SetToSeq(DOMAIN documents)
           loop == LoopChunks(ids, 1)
           last == IF fails > 0 THEN fails ELSE Len(loop)
           met == IF fails > 0 THEN {ids[d] : d \in 1..loop[fails].d} ELSE DOMAIN documents
           r == [p EXCEPT !.embedLog = @ \o [k \in 1..last |-> loop[k].content]] IN
       /\ fails <= Len(loop)
       /\ documentChunks' =
             [id \in DOMAIN documentChunks \cup met |->
                 IF id \in DOMAIN documentChunks THEN documentChunks[id]
                 ELSE Chunks(id, documents[id])]
       /\ IF fails > 0
          THEN Finish(p, Resp("gemini", 500, TRUE, [r EXCEPT !.error = EmbeddingError]))
          ELSE Continue(p, [r EXCEPT
                  !.results = Min({Len(loop), 2 * p.documentLimit}),
                  !.pc = IF detectAnalysisType(p.query) # "general" THEN "report"
                         ELSE "generate"])

\* await generateAnalysisReport(query, searchResults): a report of more than
\* 500 characters is the response; a shorter one or an error is passed over
GeminiReported(p, report) ==
    /\ At(p, "gemini", "report")
    /\ GeminiStoreFrame
    /\ IF report = "long"
       THEN Finish(p, Resp("gemini", 200, FALSE, p))
       ELSE Continue(p, [p EXCEPT !.pc = "generate"])

\* await gemini.generateContent(systemMessage, userMessage, 0.1, 4096)
GeminiGenerated(p, ok) ==
    /\ At(p, "gemini", "generate")
    /\ GeminiStoreFrame
    /\ IF ok
       THEN Finish(p, Resp("gemini", 200, FALSE, p))
       ELSE Finish(p, Resp("gemini", 500, TRUE, [p EXCEPT !.error = <<"Error using Gemini API: ">>]))

\* GET /api/gemini: the body of the answer
GeminiCheckBody(key) ==
    [configured |-> key # UnsetKey /\ KeyLength(key) > 0 /\ key # PlaceholderGeminiKey,
     message |-> IF key # UnsetKey THEN "Gemini API key is configured"
                 ELSE "Gemini API key is not configured"]
GeminiCheckGET(p) ==
    /\ Arrives(p)
    /\ GeminiStoreFrame
    /\ Finish(p, Resp("geminiCheck", 200, FALSE, GeminiCheckBody(geminiKey)))

\* GET /api/env-test: the body of the answer
EnvTestBody(openai, gemini) ==
    [message |-> "Environment variables test",
     envVars |-> [GEMINI_API_KEY |-> IF gemini # UnsetKey THEN gemini ELSE "not set",
                  GEMINI_API_KEY_LENGTH |-> KeyLength(gemini),
                  OPENAI_API_KEY |-> IF openai # UnsetKey THEN "set (hidden)" ELSE "not set"],
     allKeys |-> (IF openai # UnsetKey THEN {"OPENAI_API_KEY"} ELSE {})
                    \cup (IF gemini # UnsetKey THEN {"GEMINI_API_KEY"} ELSE {})]
EnvTestGET(p) ==
    /\ Arrives(p)
    /\ GeminiStoreFrame
    /\ Finish(p, Resp("envTest", 200, FALSE, EnvTestBody(openaiKey, geminiKey)))

NextGemini ==
    \/ \E file \in SearchFiles, parses \in BOOLEAN : DocumentsPOST(New, file, parses)
    \/ \E query \in GeminiQueries, limit \in GeminiLimits : GeminiPOST(New, query, limit)
    \/ \E p \in DOMAIN procs, isValid \in BOOLEAN : GeminiValidated(p, isValid)
    \/ \E p \in DOMAIN procs, ok \in BOOLEAN : GeminiQueryEmbedded(p, ok)
    \/ \E p \in DOMAIN procs, fails \in 0..MaxFailing : GeminiRetrieved(p, fails)
    \/ \E p \in DOMAIN procs, report \in {"long", "short", "throws"} : GeminiReported(p, report)
    \/ \E p \in DOMAIN procs, ok \in BOOLEAN : GeminiGenerated(p, ok)
    \/ GeminiCheckGET(New)
    \/ EnvTestGET(New)

SpecGemini == InitGemini /\ [][NextGemini]_vars

-----------------------------------------------------------------------------
(* page.tsx: the Home component, its requests and their callbacks (SpecUI) *)

\* The handlers that the route file of /api/documents exports
DocumentsMethods == {"POST", "DELETE", "PATCH", "GET"}

MaxShown == 3
NoMove == [id |-> NoId, folder |-> "", status |-> 0]
UiFolders == {"Research", "Policy"}
UiTexts == {"q", " "}
\* userInput.trim()
trim(text) == IF text = " " THEN "" ELSE text

InitUI ==
    /\ documents = <<StoredDocument("a.txt", ShortText), StoredDocument("b.txt", LongText)>>
    /\ nextDocId = Len(documents) + 1
    /\ chats = <<>> /\ messages = <<>> /\ nextChatId = 1 /\ nextMsgId = 1
    /\ documentChunks = <<>> /\ procs = <<>> /\ lastResp = NoResp
    /\ openaiKey \in OpenAIKeys
    /\ geminiKey = UnsetKey
    /\ extraction = Idle /\ rag = Idle /\ http = Idle /\ analysis = Idle
    \* the component is mounted and fetchDocuments has filled the list
    /\ ui = [documents |-> [id \in DOMAIN documents |-> documents[id].folder],
             activeDocument |-> NoId, chatMessages |-> <<>>, isLoading |-> FALSE,
             error |-> "", requests |-> <<>>, lastMove |-> NoMove]

UiFrame ==
    UNCHANGED <<documents, chats, messages, nextDocId, nextChatId, nextMsgId,
                documentChunks, openaiKey, geminiKey, procs, lastResp, extraction, rag,
                http, analysis>>
ServerFrame ==
    UNCHANGED <<documents, nextDocId, documentChunks, openaiKey, geminiKey, procs, lastResp,
                extraction, rag, http, analysis>>

NoResponse == [status |-> 0]
Sends(request) == BagSize(ui.requests) < MaxProcs /\ request.response = NoResponse
Waiting(request, kind) ==
    request \in DOMAIN ui.requests /\ request.kind = kind /\ request.response = NoResponse
Answered(request, kind) ==
    request \in DOMAIN ui.requests /\ request.kind = kind /\ request.response # NoResponse
Answer(request, response) ==
    ui' = [ui EXCEPT !.requests = BagAdd(BagRemove(@, request),
                                         [request EXCEPT !.response = response])]

\* onClick={() => setActiveDocument(doc)} and the effect on [activeDocument]:
\* fetchChatHistory(activeDocument.id) sends GET /api/chat?documentId=..
ActivateDocument(id) ==
    /\ id \in DOMAIN ui.documents
    /\ id # ui.activeDocument
    /\ LET request == [kind |-> "history", documentId |-> id, response |-> NoResponse] IN
       /\ Sends(request)
       /\ ui' = [ui EXCEPT !.activeDocument = id,
                           !.requests = BagAdd(@, request)]
    /\ UiFrame

\* GET /api/chat: the chats of the document, the most recent first, each with
\* its messages in the order of their creation
MessagesAsc(chatId) ==
    LET ids == SetToSeq(MessagesOf(chatId)) IN
    [k \in 1..Len(ids) |-> [role |-> messages[ids[k]].role,
                            content |-> messages[ids[k]].content,
                            documentId |-> chats[chatId].documentId]]
ChatGET(request) ==
    /\ Waiting(request, "history")
    /\ LET cs == ChatsOf(request.documentId) IN
       Answer(request, [status |-> 200,
                        chats |-> IF cs = {} THEN <<>>
                                  ELSE <<MessagesAsc(MostRecentChat(cs))>>])
    /\ UiFrame

\* fetchChatHistory after its await: setChatMessages(latestChat.messages || [])
HistoryArrives(request) ==
    /\ Answered(request, "history")
    /\ ui' = [ui EXCEPT !.requests = BagRemove(@, request),
                        !.chatMessages = IF request.response.chats # <<>>
                                         THEN request.response.chats[1] ELSE <<>>]
    /\ UiFrame

\* handleSendMessage up to its await: the user's message is shown, the request
\* POST /api/chat { documentId: activeDocument.id, message } is sent
SendMessage(userInput) ==
    /\ ~ui.isLoading
    /\ trim(userInput) # "" /\ ui.activeDocument # NoId
    /\ Len(ui.chatMessages) < MaxShown
    /\ LET request == [kind |-> "send", documentId |-> ui.activeDocument,
                       message |-> userInput, response |-> NoResponse] IN
       /\ Sends(request)
       /\ ui' = [ui EXCEPT
                   !.chatMessages = Append(@, [role |-> "user", content |-> userInput,
                                               documentId |-> ui.activeDocument]),
                   !.isLoading = TRUE, !.error = "",
                   !.requests = BagAdd(@, request)]
    /\ UiFrame

\* POST /api/chat served: the chat found or created, the user's message
\* stored, then the completion and the assistant's message, or the failure
ChatPOST(request, ok, content) ==
    /\ Waiting(request, "send")
    /\ ServerFrame
    /\ LET cs == ChatsOf(request.documentId)
           chatId == IF cs = {} THEN nextChatId ELSE MostRecentChat(cs)
           user == [chatId |-> chatId, role |-> "user", content |-> request.message]
           assistant == [chatId |-> chatId, role |-> "assistant",
                         content |-> responseTextOf(content)] IN
       /\ IF cs = {}
          THEN /\ nextChatId <= MaxChats
               /\ chats' = Put(chats, nextChatId, [documentId |-> request.documentId])
               /\ nextChatId' = nextChatId + 1
          ELSE UNCHANGED <<chats, nextChatId>>
       /\ IF ok /\ OpenAIKeyConfigured
          THEN /\ nextMsgId + 1 <= MaxMsgs
               /\ messages' = Put(Put(messages, nextMsgId, user), nextMsgId + 1, assistant)
               /\ nextMsgId' = nextMsgId + 2
               /\ Answer(request, [status |-> 200, response |-> assistant.content])
          ELSE /\ nextMsgId <= MaxMsgs
               /\ messages' = Put(messages, nextMsgId, user)
               /\ nextMsgId' = nextMsgId + 1
               /\ Answer(request, [status |-> 500, response |-> ""])

\* handleSendMessage after its await: the assistant's message is appended
ReplyArrives(request) ==
    /\ Answered(request, "send")
    /\ ui' = [ui EXCEPT
                !.requests = BagRemove(@, request),
                !.isLoading = FALSE,
                !.error = IF request.response.status = 200 THEN @
                          ELSE "Failed to get a response",
                !.chatMessages =
                    IF request.response.status = 200 /\ request.response.response # ""
                    THEN Append(@, [role |-> "assistant",
                                    content |-> request.response.response,
                                    documentId |-> request.documentId])
                    ELSE @]
    /\ UiFrame

\* handleMoveToFolder up to its await: axios.put('/api/documents', { id, folder })
MoveToFolder(id, folder) ==
    /\ id \in DOMAIN ui.documents
    /\ LET request == [kind |-> "move", method |-> "PUT", id |-> id, folder |-> folder,
                       response |-> NoResponse] IN
       /\ Sends(request)
       /\ ui' = [ui EXCEPT !.requests = BagAdd(@, request)]
    /\ UiFrame

\* The request reaches the route of /api/documents: a method without an
\* exported handler is answered 405; PATCH reads id and folder from the query
\* string, which this request does not carry
DocumentsRoute(request) ==
    /\ Waiting(request, "move")
    /\ Answer(request, [status |-> IF request.method \notin DocumentsMethods
                                    THEN 405 ELSE 400])
    /\ UiFrame

\* handleMoveToFolder after its await: axios rejects a status outside 2xx
MoveArrives(request) ==
    /\ Answered(request, "move")
    /\ LET moved == request.response.status \in 200..299
           move == [id |-> request.id, folder |-> request.folder,
                    status |-> request.response.status] IN
       ui' = [ui EXCEPT
                !.requests = BagRemove(@, request),
                !.lastMove = move,
                !.documents = IF moved THEN [@ EXCEPT ![request.id] = request.folder] ELSE @,
                !.error = IF moved THEN @ ELSE "Failed to update document folder"]
    /\ UiFrame

NextUI ==
    \/ \E id \in DOMAIN documents : ActivateDocument(id)
    \/ \E request \in DOMAIN ui.requests : ChatGET(request)
    \/ \E request \in DOMAIN ui.requests : HistoryArrives(request)
    \/ \E userInput \in UiTexts : SendMessage(userInput)
    \/ \E request \in DOMAIN ui.requests, ok \in BOOLEAN, content \in Completions :
            ChatPOST(request, ok, content)
    \/ \E request \in DOMAIN ui.requests : ReplyArrives(request)
    \/ \E id \in DOMAIN documents, folder \in UiFolders : MoveToFolder(id, folder)
    \/ \E request \in DOMAIN ui.requests : DocumentsRoute(request)
    \/ \E request \in DOMAIN ui.requests : MoveArrives(request)

SpecUI == InitUI /\ [][NextUI]_vars

-----------------------------------------------------------------------------
(* Properties of the uploads (SpecUpload) *)

C11_UploadStep ==
    lastResp'.kind = "upload" =>
        LET file == lastResp'.data.file
            parsed == file.type \in {"docx", "doc", "ods", "xlsx", "xls"}
                          /\ lastResp'.data.parses
            text == IF parsed THEN file.parsed ELSE file.content
            created == DOMAIN documents' \ DOMAIN documents
        IN /\ lastResp'.status \in {200, 400}
           /\ lastResp'.status = 400 <=> (~file.present \/ text = <<>>)
           /\ lastResp'.status = 400 => store' = store
           /\ lastResp'.status = 200
                => /\ Cardinality(created) = 1
                   /\ DOMAIN documents \subseteq DOMAIN documents'
                   /\ \A d \in DOMAIN documents : documents'[d] = documents[d]
                   /\ \A d \in created :
                         /\ documents'[d].title = file.name
                         /\ documents'[d].content = text
                         /\ documents'[d].folder = "Unclassified"
                   /\ chats' = chats /\ messages' = messages

\* C11: POST /api/documents answers 400 and creates nothing when there is no
\* file or the extracted content is empty; otherwise it creates exactly one
\* Document with the file's name as title, the extracted text as content and
\* the folder 'Unclassified', and changes nothing else.
C11_UploadCreatesOne == [][C11_UploadStep]_vars

\* A Word file was stored with the text mammoth extracted, beside a document
\* that was moved to another folder before.
C11_Witness ==
    /\ lastResp.kind = "upload" /\ lastResp.status = 200
    /\ lastResp.data.file = WordFile /\ lastResp.data.parses
    /\ \E d \in DOMAIN documents : documents[d].content = WordFile.parsed
    /\ \E d \in DOMAIN documents : documents[d].folder = "Research"

-----------------------------------------------------------------------------
(* Properties of POST /api/chat (Spec) *)

Count(b, r) == IF r \in DOMAIN b THEN b[r] ELSE 0
\* The requests of a kind that a step brings to a position
Reaching(kind, pc) ==
    {q \in DOMAIN procs' : q.kind = kind /\ q.pc = pc /\ Count(procs', q) > Count(procs, q)}
NewChats == DOMAIN chats' \ DOMAIN chats
NewMessages == DOMAIN messages' \ DOMAIN messages

\* The chat of a request is the most recently created chat of its document,
\* or one it creates after it found none
C12_ChatChosen ==
    /\ \A q \in Reaching("chat", "createChat") : ChatsOf(q.documentId) = {}
    /\ \A q \in Reaching("chat", "saveUser") :
          \/ /\ chats' = chats
             /\ q.chatId \in ChatsOf(q.documentId)
             /\ \A c \in ChatsOf(q.documentId) : c <= q.chatId
          \/ /\ NewChats = {q.chatId}
             /\ chats'[q.chatId].documentId = q.documentId

\* The user message is stored once, in that chat, with the request's message
C12_UserStored ==
    \A q \in Reaching("chat", "openai") :
        /\ NewMessages = {q.userMessage}
        /\ messages'[q.userMessage] =
               [chatId |-> q.chatId, role |-> "user", content |-> q.message]
        /\ q.chatId \in DOMAIN chats /\ chats[q.chatId].documentId = q.documentId

\* Nothing else is stored on the way to the answer
C12_NothingBetween ==
    \A q \in Reaching("chat", "saveAssistant") :
        /\ store' = store
        /\ q.userMessage # NoId /\ q.userMessage < nextMsgId
        /\ q.responseText # ""

\* The assistant message is stored once, after the user message, in the same
\* chat, with the text of the answer
C12_AssistantStored ==
    (lastResp'.kind = "chat" /\ lastResp'.status = 200) =>
        LET r == lastResp'.data IN
        /\ Cardinality(NewMessages) = 1
        /\ \A m \in NewMessages :
              /\ messages'[m] = [chatId |-> r.chatId, role |-> "assistant",
                                 content |-> r.responseText]
              /\ r.userMessage # NoId /\ r.userMessage < m
        /\ \A m \in DOMAIN messages : messages'[m] = messages[m]
        /\ r.message # "" /\ r.responseText # ""

\* C12: a POST /api/chat that answers with a response text has stored exactly
\* one user message, holding the request's message, and exactly one assistant
\* message, holding the returned text, both in the same chat: the most recently
\* created chat of the document, created if the request found none; the user
\* message is stored before the assistant message.
C12_ChatStoresBoth ==
    [][C12_ChatChosen /\ C12_UserStored /\ C12_NothingBetween /\ C12_AssistantStored]_vars

\* A request answered with a text whose messages are in the later of two chats of
\* its document
C12_Witness ==
    /\ lastResp.kind = "chat" /\ lastResp.status = 200
    /\ \E c \in ChatsOf(lastResp.data.documentId) : c < lastResp.data.chatId
    /\ \E m \in MessagesOf(lastResp.data.chatId) : messages[m].role = "assistant"

\* C13: after any interleaving of POST /api/chat requests for the same
\* document, at most one Chat row exists for that document.
C13_AtMostOneChat ==
    \A d \in DocIdInputs : Cardinality(ChatsOf(d)) <= 1

\* The requests of a kind that a step takes away from a position
Leaving(kind, pc) ==
    {q \in DOMAIN procs : q.kind = kind /\ q.pc = pc /\ Count(procs', q) < Count(procs, q)}
FailsAfterUserMessage ==
    lastResp'.kind = "chat" /\ lastResp'.status = 500 /\ lastResp'.data.userMessage # NoId

\* Without a configured key the request ends with 500 once the user message
\* is stored, and OpenAI is never called
C14_KeyMissing ==
    openaiKey \in {UnsetKey, PlaceholderOpenAIKey} =>
        /\ Reaching("chat", "openai") = {}
        /\ (Leaving("chat", "saveUser") # {} /\ NewMessages # {}) => FailsAfterUserMessage

\* A call of OpenAI that throws ends the request with 500
C14_OpenAIThrows ==
    (Leaving("chat", "openai") # {} /\ Reaching("chat", "saveAssistant") = {})
        => FailsAfterUserMessage /\ lastResp'.data.pc = "openai"

\* The failing step removes no message and stores no assistant message
C14_UserMessageStays ==
    FailsAfterUserMessage =>
        LET r == lastResp'.data IN
        /\ \A m \in DOMAIN messages : m \in DOMAIN messages' /\ messages'[m] = messages[m]
        /\ NewMessages \subseteq {r.userMessage}
        /\ \A m \in NewMessages : messages'[m].role = "user"
        /\ r.userMessage \in DOMAIN messages'
              => messages'[r.userMessage] =
                     [chatId |-> r.chatId, role |-> "user", content |-> r.message]
        /\ r.pc = "saveUser" => r.userMessage \in DOMAIN messages'

C14_WitnessPlaceholder ==
    /\ lastResp.kind = "chat" /\ lastResp.status = 500
    /\ lastResp.data.pc = "saveUser" /\ openaiKey = PlaceholderOpenAIKey
    /\ lastResp.data.userMessage \in MessagesOf(lastResp.data.chatId)

-----------------------------------------------------------------------------
(* Properties of the results of a search (SpecSearch) *)

ChunkKey(result) == <<result.documentId, result.metadata.index>>
ListedIds(r) == {r.listed[k].id : k \in 1..Len(r.listed)}
ListedChunkKeys(r) ==
    UNION {{<<id, i - 1>> : i \in 1..Len(documentChunks[id])} :
              id \in ListedIds(r) \cap DOMAIN documentChunks}

\* C15: a search that returns gives exactly min(limit, C) results, C being the
\* number of chunks of the documents it listed; they are ordered by
\* non-increasing similarity, each is one of the scored chunks, no chunk left
\* out has a higher similarity than a returned one, and each result's
\* documentId is the id of a listed document.
C15_TopResults ==
    (lastResp.kind = "search" /\ lastResp.status = 200) =>
        LET r == lastResp.data
            top == r.topResults
            scored == {r.results[k] : k \in 1..Len(r.results)}
            returned == {top[k] : k \in 1..Len(top)}
            leftOut == {x \in scored : ChunkKey(x) \notin {ChunkKey(t) : t \in returned}}
        IN /\ Len(top) = Min({r.limit, ChunkTotal(r)})
           /\ \A i, j \in 1..Len(top) : i < j => top[i].similarity >= top[j].similarity
           /\ {ChunkKey(x) : x \in scored} = ListedChunkKeys(r)
           /\ Cardinality(scored) = ChunkTotal(r)
           /\ returned \subseteq scored
           /\ Cardinality({ChunkKey(t) : t \in returned}) = Len(top)
           /\ \A x \in leftOut, t \in returned : x.similarity <= t.similarity
           /\ \A t \in returned : t.documentId \in ListedIds(r)

\* A search with limit 2 over more than two chunks left out a chunk of the
\* lower similarity and returned one of the higher
C15_Witness ==
    /\ lastResp.kind = "search" /\ lastResp.status = 200
    /\ lastResp.data.limit = 2 /\ Len(lastResp.data.topResults) = 2
    /\ Len(lastResp.data.results) > 2
    /\ lastResp.data.topResults[1].similarity = 2
    /\ \E k \in 1..Len(lastResp.data.results) : lastResp.data.results[k].similarity = 1
    /\ lastResp.data.results[1].similarity = 1

\* The searches whose next step builds the chunks of a listed document that
\* is no longer stored
BuildsDeleted ==
    {q \in Leaving("search", "createChunks") : q.listed[q.d].id \notin DOMAIN documents}

\* C16: when a document without an entry in documentChunks is deleted after a
\* search listed it and before the search builds its chunks, the search fails
\* with 'Document with ID ... not found' and status 500; it does not skip the
\* document and return the results of the others.
C16_DeletedDocumentFailsSearch ==
    [][\A q \in BuildsDeleted :
           /\ lastResp'.kind = "search" /\ lastResp'.status = 500 /\ lastResp'.error
           /\ lastResp'.data.error = NotFoundMessage(q.listed[q.d].id)
           /\ lastResp'.data.topResults = <<>>
           /\ q.lookups[Len(q.lookups)] =
                  [id |-> q.listed[q.d].id, had |-> FALSE, built |-> TRUE]
           /\ documentChunks' = documentChunks
           /\ Reaching("search", "embedChunk") = {}]_vars

\* A search that had scored the chunks of one document failed on the next
\* one, which was deleted after the listing
C16_Witness ==
    /\ lastResp.kind = "search" /\ lastResp.status = 500
    /\ lastResp.data.pc = "createChunks"
    /\ lastResp.data.error = NotFoundMessage(lastResp.data.listed[lastResp.data.d].id)
    /\ lastResp.data.results # <<>>
    /\ lastResp.data.listed[lastResp.data.d].id \notin DOMAIN documents

\* The documents that are stored and have an entry in the map
CachedDocuments == DOMAIN documents \cap DOMAIN documentChunks

C17_CacheIsCurrent ==
    \A d \in CachedDocuments :
        /\ Texts(documentChunks[d]) = splitText(documents[d].content)
        /\ \A i \in 1..Len(documentChunks[d]) :
              /\ documentChunks[d][i].metadata.title = documents[d].title
              /\ documentChunks[d][i].metadata.documentId = d

C17_ContentAndTitleKept ==
    \A d \in DOMAIN documents \cap DOMAIN documents' :
        /\ documents'[d].content = documents[d].content
        /\ documents'[d].title = documents[d].title

\* C17: after any sequence of upload, move, delete, search and process_all
\* requests, the cached chunk texts of every stored document with an entry in
\* documentChunks are the split of its current content and every cached
\* chunk's metadata.title is its current title; no handler changes the
\* content or the title of an existing document.
C17_CacheMatchesStore ==
    []C17_CacheIsCurrent /\ [][C17_ContentAndTitleKept]_vars

\* A document of several chunks has an entry in the map and was moved to
\* another folder after the entry was built
C17_Witness ==
    /\ lastResp.kind = "patch" /\ lastResp.status = 200
    /\ lastResp.data.id \in CachedDocuments
    /\ Len(documentChunks[lastResp.data.id]) > 1
    /\ documents[lastResp.data.id].folder = "Research"

-----------------------------------------------------------------------------
(* Properties of truncateContext (SpecRag) *)

\* C18: the estimated token count of what truncateContext(context, maxTokens)
\* returns is at most maxTokens; here for the context that multiDocumentRAG
\* truncates to maxContextTokens when the request is over the OpenAI limit.
C18_TruncatedFits ==
    (rag.pc = "chat" /\ rag.totalTokens > OpenAITokenLimit)
        => /\ rag.truncatedContext = truncateContext(rag.context, maxContextTokens)
           /\ estimateTokenCount(ContextLength(rag.truncatedContext)) <= maxContextTokens

-----------------------------------------------------------------------------
(* Properties of the analysis (SpecAnalysis) *)

Returned(call) == analysis.pc \in {"done", "returned"} /\ analysis.call = call /\ ~analysis.thrown

\* C19 as stated: the result that performAnalysis returns has the type that
\* detectAnalysisType gives for the query.
C19_TypeIsDetected ==
    Returned("performAnalysis")
        => analysis.result.type = detectAnalysisType(analysis.query)

\* C19: the result that performAnalysis returns has the type that
\* detectAnalysisType gives for the query when that type is council_tax,
\* budget_comparison, spending_analysis or general; for demographic_analysis
\* and election_results the result is the general one, of type general.
C19_TypeOfResult ==
    Returned("performAnalysis")
        => LET detected == detectAnalysisType(analysis.query) IN
           /\ analysis.analysisType = detected
           /\ detected \in {"council_tax", "budget_comparison", "spending_analysis", "general"}
                 => analysis.result.type = detected
           /\ detected \in {"demographic_analysis", "election_results"}
                 => analysis.result.type = "general"
           /\ detected \in {"council_tax", "budget_comparison", "spending_analysis",
                            "general", "demographic_analysis", "election_results"}

\* A query about spending and comparison got the budget comparison
C19_Witness ==
    /\ Returned("performAnalysis")
    /\ includes(analysis.query, SpendingPhrase)
    /\ analysis.result.type = "budget_comparison"

\* An election query got the general result
C19_WitnessElection ==
    /\ Returned("performAnalysis")
    /\ detectAnalysisType(analysis.query) = "election_results"
    /\ analysis.result.type = "general"

\* C20: analyzeCouncilTaxDataWithFallback returns the sample data exactly when
\* the extraction yields no council entry and useSampleIfEmpty is true, and
\* then debug.usingSampleData is true; in every other case it returns the
\* result of analyzeCouncilTaxData unchanged.
C20_FallbackOnlyWhenEmpty ==
    Returned("analyzeCouncilTaxDataWithFallback")
        => LET real == analyzeCouncilTaxData(analysis.documentIds)
               sample == analysis.result.summary.councilData = loadSampleCouncilTaxData
           IN /\ sample <=> (real.summary.councilData = <<>> /\ analysis.useSampleIfEmpty)
              /\ sample => /\ "usingSampleData" \in DOMAIN analysis.result.debug
                           /\ analysis.result.debug.usingSampleData
                           /\ analysis.result.summary.labourCount = 3
                           /\ analysis.result.summary.conservativeCount = 3
                           /\ analysis.result.summary.higherParty = Labour
              /\ ~sample => analysis.result = real

\* The documents read hold a council tax table without a percentage: the
\* sample data were returned
C20_Witness ==
    /\ Returned("analyzeCouncilTaxDataWithFallback")
    /\ analysis.result.summary.councilData = loadSampleCouncilTaxData
    /\ analysis.result.debug.realDocumentsAnalyzed > 0

\* Two entries were extracted and returned as they were
C20_WitnessReal ==
    /\ Returned("analyzeCouncilTaxDataWithFallback")
    /\ analysis.useSampleIfEmpty
    /\ Len(analysis.result.summary.councilData) = 2
    /\ analysis.result.summary.labourCount = 1
    /\ analysis.result.summary.conservativeCount = 1

\* a > b for two fractions of positive denominators
Greater(a, b) == a.num * b.den > b.num * a.den

\* C21: in the result of analyzeCouncilTaxData, higherParty is the party whose
\* average percentage change is strictly greater than the other party's, and
\* difference is the absolute difference of the two averages.
C21_HigherPartyIsHigher ==
    (Returned("analyzeCouncilTaxDataWithFallback") /\ ~analysis.useSampleIfEmpty)
        => LET r == analysis.result.summary IN
           /\ r = analyzeCouncilTaxData(analysis.documentIds).summary
           /\ r.higherParty \in {Labour, Conservative}
           /\ r.higherParty = Labour => Greater(r.labourAverage, r.conservativeAverage)
           /\ r.higherParty = Conservative
                 => Greater(r.conservativeAverage, r.labourAverage)
           /\ r.difference = Abs(Minus(r.labourAverage, r.conservativeAverage))

-----------------------------------------------------------------------------
(* Properties of the Gemini and env-test routes (SpecGemini) *)

GeminiRecords ==
    {r \in DOMAIN procs : r.kind = "gemini"}
        \cup (IF lastResp.kind = "gemini" THEN {lastResp.data} ELSE {})

\* C22: POST /api/gemini checks the Gemini key before any retrieval: when
\* GEMINI_API_KEY is unset or the placeholder, or isValidApiKey answers false,
\* the handler answers 400 and the request has sent no embedding request and
\* begun no semantic search; a search begins only after the key was found valid.
C22_KeyCheckedBeforeRetrieval ==
    /\ \A r \in GeminiRecords :
          /\ (geminiKey \in {UnsetKey, PlaceholderGeminiKey} \/ r.isValid = "false")
                => r.embedLog = <<>> /\ r.searches = 0 /\ r \notin DOMAIN procs
          /\ (r.searches > 0 \/ r.embedLog # <<>>) => r.isValid = "true"
    /\ (lastResp.kind = "gemini"
           /\ (geminiKey \in {UnsetKey, PlaceholderGeminiKey} \/ lastResp.data.isValid = "false"))
          => lastResp.status = 400

\* The validation call answered false while OPENAI_API_KEY was configured:
\* the request ended with 400 and nothing was retrieved
C22_Witness ==
    /\ lastResp.kind = "gemini" /\ lastResp.status = 400
    /\ lastResp.data.isValid = "false" /\ lastResp.data.query # <<>>
    /\ openaiKey = ValidOpenAIKey
    /\ lastResp.data.embedLog = <<>>

\* The placeholder key: the request ended with 400 at once
C22_WitnessPlaceholder ==
    /\ lastResp.kind = "gemini" /\ lastResp.status = 400
    /\ geminiKey = PlaceholderGeminiKey /\ lastResp.data.query # <<>>
    /\ lastResp.data.isValid = "unknown"

\* The strings of a response body of GET /api/env-test or GET /api/gemini
BodyStrings(resp) ==
    IF resp.kind = "envTest"
    THEN {resp.data.message, resp.data.envVars.GEMINI_API_KEY,
          resp.data.envVars.OPENAI_API_KEY} \cup resp.data.allKeys
    ELSE {resp.data.message}
ConfiguredOpenAIKeys == {ValidOpenAIKey, OtherOpenAIKey}
ConfiguredGeminiKeys == {ValidGeminiKey, OtherGeminiKey}

\* C23: no response body of GET /api/env-test or GET /api/gemini contains the
\* value of OPENAI_API_KEY or GEMINI_API_KEY, and the body is the one that a
\* run with any other configured key of the same length would have received.
C23_KeysStaySecret ==
    lastResp.kind \in {"envTest", "geminiCheck"}
        => /\ (openaiKey \in ConfiguredOpenAIKeys => openaiKey \notin BodyStrings(lastResp))
           /\ (geminiKey \in ConfiguredGeminiKeys => geminiKey \notin BodyStrings(lastResp))
           /\ \A openai \in ConfiguredOpenAIKeys, gemini \in ConfiguredGeminiKeys :
                 (/\ openaiKey \in ConfiguredOpenAIKeys => KeyLength(openai) = KeyLength(openaiKey)
                  /\ geminiKey \in ConfiguredGeminiKeys => KeyLength(gemini) = KeyLength(geminiKey))
                 => LET o == IF openaiKey \in ConfiguredOpenAIKeys THEN openai ELSE openaiKey
                        g == IF geminiKey \in ConfiguredGeminiKeys THEN gemini ELSE geminiKey
                    IN lastResp.data = (IF lastResp.kind = "envTest" THEN EnvTestBody(o, g)
                                        ELSE GeminiCheckBody(g))

\* The part of C23 that GET /api/gemini alone keeps
C23_CheckKeepsKeySecret ==
    lastResp.kind = "geminiCheck"
        => /\ geminiKey \notin BodyStrings(lastResp) \ {UnsetKey}
           /\ \A gemini \in ConfiguredGeminiKeys :
                 geminiKey \in ConfiguredGeminiKeys => lastResp.data = GeminiCheckBody(gemini)

-----------------------------------------------------------------------------
(* Properties of the page component (SpecUI) *)

\* Every message shown belongs to the active document
ShownBelongToActive ==
    \A k \in 1..Len(ui.chatMessages) : ui.chatMessages[k].documentId = ui.activeDocument
\* A step that appends an assistant's message appends one of the active document
ReplyStep ==
    (/\ Len(ui'.chatMessages) = Len(ui.chatMessages) + 1
     /\ ui'.chatMessages[Len(ui'.chatMessages)].role = "assistant")
        => ui'.chatMessages[Len(ui'.chatMessages)].documentId = ui'.activeDocument

\* C24: in the UI the chat messages shown belong to the active document: a
\* reply to a message sent for one document is never appended after the user
\* has activated another document, whatever the order in which that document's
\* chat history and the reply arrive.
C24_ReplyOfActiveDocument == [][ReplyStep]_vars

\* C27: after handleMoveToFolder has run for a document and a folder, the
\* stored folder of the document is the chosen folder and the list of the UI
\* shows the same folder.
C27_MoveReachesStore ==
    ui.lastMove # NoMove
        => /\ documents[ui.lastMove.id].folder = ui.lastMove.folder
           /\ ui.documents[ui.lastMove.id] = ui.lastMove.folder

-----------------------------------------------------------------------------
(* Properties of the extracted numbers (SpecExtract) *)

\* The number of an occurrence as the content has it: where its digits begin
\* and end, whether a currency sign stands directly before it, whether a '%'
\* stands directly behind it and is followed by a space, a full stop or the end
NumberOf(content, occurrence) ==
    LET from == RunEnd(content, RunEnd(content, occurrence.index, CurrencyChars), SpaceChars)
        d == RunEnd(content, from, DigitChars)
        to == IF CharAt(content, d) \in SeparatorChars /\ CharAt(content, d + 1) \in DigitChars
                  /\ d + 1 < occurrence.index + Len(occurrence.text)
              THEN RunEnd(content, d + 1, DigitChars) ELSE d
    IN [digits |-> substring(content, from, to),
        currency |-> CharAt(content, from - 1) \in CurrencyChars,
        percent |-> CharAt(content, to) = "%"
                       /\ CharAt(content, to + 1) \in {"", " ", "."}]

\* C25: an entry of extractNumericalData has isPercentage = true when its
\* number is directly followed by '%' (then a space, punctuation or the end),
\* hasCurrency = true when the number is directly preceded by a currency sign,
\* and as value the numeric value of the number without the symbols.
C25_PercentAndCurrency ==
    \A k \in 1..Len(extraction.numericalData) :
        LET entry == extraction.numericalData[k]
            number == NumberOf(extraction.content, extraction.occurrences[k]) IN
        /\ number.percent => entry.isPercentage
        /\ number.currency => entry.hasCurrency
        /\ entry.value = parseFloat(number.digits)

\* The parts of C25 about the currency sign and the value
C25_CurrencyAndValue ==
    \A k \in 1..Len(extraction.numericalData) :
        LET entry == extraction.numericalData[k]
            number == NumberOf(extraction.content, extraction.occurrences[k]) IN
        /\ number.currency => entry.hasCurrency
        /\ entry.value = parseFloat(number.digits)

-----------------------------------------------------------------------------
(* Properties of a DELETE that fails half way (Spec) *)

\* The response of a DELETE that failed after it had removed rows
FailedAfterDeleting(resp) ==
    /\ resp.kind = "delete" /\ resp.status = 500
    /\ resp.data.deletedMessages # {} \/ resp.data.deletedChats # {}
NotRestored(r) ==
    /\ \A m \in r.deletedMessages : m.id \notin DOMAIN messages
    /\ r.deletedChats \cap DOMAIN chats = {}

\* C26 as stated: when a step of DELETE fails after the handler has deleted
\* messages or chats, the answer is 500, the document remains in the store and
\* the rows already deleted are not restored.
C26_DocumentRemains ==
    FailedAfterDeleting(lastResp)
        => /\ lastResp.data.id \in DOMAIN documents
           /\ NotRestored(lastResp.data)

\* The failing step: it changes no row; the rows removed before were messages
\* of the chats of the snapshot and chats of the document, and they stay
\* removed; the document is still stored exactly when the restrict foreign key
\* rejected the delete, and is gone when the delete found no document
C26_FailingStep ==
    FailedAfterDeleting(lastResp')
        => LET r == lastResp'.data
               snapshot == {r.snap[k] : k \in 1..Len(r.snap)} IN
           /\ store' = store
           /\ \A m \in r.deletedMessages : m.chatId \in snapshot
           /\ r.id \in DOMAIN documents
                 <=> \/ r.pc = "deleteChats" /\ \E c \in ChatsOf(r.id) : MessagesOf(c) # {}
                     \/ r.pc = "deleteDocument" /\ ChatsOf(r.id) # {}

\* C26 amended: DELETE is not atomic: a step that fails after the handler has
\* deleted messages or chats answers 500 and restores nothing; the document
\* remains when the restrict foreign key rejected the step, and is gone when
\* another DELETE of the same document removed it meanwhile.
C26_NoRecovery ==
    /\ [](FailedAfterDeleting(lastResp) => NotRestored(lastResp.data))
    /\ [][C26_FailingStep]_vars

\* A DELETE removed the messages of a chat, a message was created in that chat
\* meanwhile, and the delete of the chats was rejected: the document remains
C26_Witness ==
    /\ FailedAfterDeleting(lastResp)
    /\ lastResp.data.pc = "deleteChats"
    /\ lastResp.data.id \in DOMAIN documents
    /\ \E c \in ChatsOf(lastResp.data.id) : MessagesOf(c) # {}

\* Two DELETEs of one document: the second had removed the messages and found
\* no document at its last step
C26_WitnessGone ==
    /\ FailedAfterDeleting(lastResp)
    /\ lastResp.data.pc = "deleteDocument"
    /\ lastResp.data.id \notin DOMAIN documents

====
